---------------------------- MODULE Spec2Model ----------------------------
(***************************************************************************)
(* Model of the scan scheduler of the arbitrage bot: class                 *)
(* ContinuousScanner of src/arbitrage-bot.ts (lines 1716-2740) together    *)
(* with the quote wrapper setupJupiterAPI of src/jupiter-api.ts.           *)
(*                                                                         *)
(* Conventions of the model                                                *)
(*  - A priority score is an IEEE double in the code.  Here it is a        *)
(*    fixed-point integer in units of 1/ScoreOne; score * 1.5 is           *)
(*    (score * 3) \div 2, score * 0.95 is (score * 19) \div 20 and         *)
(*    score * 0.8 is (score * 4) \div 5.                                   *)
(*  - A delay is kept in quarter milliseconds (Ms(1500) is 1500 ms), so    *)
(*    that every value of the chain 1500 * 1.5^k below the cap is exact.   *)
(*  - The class declares the field tokenMap twice (line 1720 as a Map,     *)
(*    line 1744 as a Record initialised to {}).  Field initialisers run    *)
(*    in order, so at run time tokenMap is the plain object of line 1744:  *)
(*    tokenMap[mint] and "for (mint in tokenMap)" work, tokenMap.size is   *)
(*    undefined and tokenMap.has(...) raises a TypeError.  The model       *)
(*    follows the run-time behaviour.                                      *)
(*  - Fields that are only written to the log (scanCount, errorCount,      *)
(*    totalRoutesScanned, totalRoutesGenerated, lastOpportunityFound)      *)
(*    are not state.                                                       *)
(***************************************************************************)
EXTENDS Integers, Sequences, FiniteSets, TLC

(***************************************************************************)
(* Bounds of the model                                                     *)
(***************************************************************************)
\* number of tokens of the token list besides the source token and the stablecoin
NumTokens == 1
\* Date.now() ranges over 1..MaxTime; every timer callback advances it by one
MaxTime == 5
\* the same, for SpecRestart and SpecReinit, and for SpecBackoff
MaxRestartTime == 3
MaxBackoffTime == 10
\* calls of startContinuousScanning in SpecRestart, of initialize in SpecReinit
MaxStarts == 2
MaxInits == 2
\* SpecScore: the verdicts both routes share, then the verdicts that differ
MaxPrefix == 3
MaxRun == 4
\* SpecEvaluate: the final amounts lie at most MaxSpread smallest units from the
\* amount whose gross profit equals the threshold
MaxSpread == 12
\* calls of the ledger and of the exchange
MaxTrades == 2

(***************************************************************************)
(* Program constants                                                       *)
(***************************************************************************)
\* a delay of x milliseconds, in quarter milliseconds
Ms(x) == 4 * x
\* Math.ceil(60000 / 40)
requestDelay == Ms(60000 \div 40)
maxBackoffDelay == Ms(10000)
initialBackoffDelay == Ms(1500)
concurrencyRetryDelay == Ms(100)
maxConcurrentRequests == 1
\* the score 1.0
ScoreOne == 100000
\* consecutiveErrors > 3 starts the backoff
ErrorThreshold == 3
\* knownGoodTokens.size < 10 starts the token list download
MinVerifiedTokens == 10
\* the opportunity list keeps the best 50
MaxOpportunities == 50
\* this.tradeSize, in whole source tokens
tradeSize == 1
\* decimals of every token of the modelled token list
Decimals == 5

SOL == "SOL"
USDC == "USDC"
TokenNames == <<"T1", "T2", "T3">>
OtherTokens == {TokenNames[i] : i \in 1..NumTokens}
stablecoins == {USDC}
Mints == {SOL} \cup stablecoins \cup OtherTokens
\* the token list handed to initialize(tokenMap)
TokenList == Mints
None == "none"

(***************************************************************************)
(* Helpers                                                                 *)
(***************************************************************************)
Range(s) == {s[i] : i \in DOMAIN s}

Abs(x) == IF x < 0 THEN -x ELSE x

Min(a, b) == IF a < b THEN a ELSE b

RECURSIVE Pow10(_)
Pow10(n) == IF n = 0 THEN 1 ELSE 10 * Pow10(n - 1)

\* the sequence s without its element at position i
RemoveAt(s, i) == [j \in 1..(Len(s) - 1) |-> IF j < i THEN s[j] ELSE s[j + 1]]

\* the order in which "for (const mint in this.tokenMap)" visits the keys:
\* the insertion order, which is the order of the token list
MintOrder == <<SOL, USDC>> \o TokenNames

InOrder(S) == SelectSeq(MintOrder, LAMBDA m : m \in S)

(***************************************************************************)
(* State: the fields of one ContinuousScanner and its environment          *)
(***************************************************************************)
VARIABLES
  tokenMap,                \* this.tokenMap: mint -> [verified, blacklisted]
  knownGoodTokens,         \* this.knownGoodTokens
  blacklistedTokens,       \* this.blacklistedTokens
  opportunities,           \* this.opportunities, as their profit percentages
  routeQueue,              \* this.routeQueue
  isScanning,              \* this.isScanning
  scanInterval,            \* this.scanInterval is not null
  currentlyActiveRequests, \* this.currentlyActiveRequests
  routeScoreMap,           \* this.routeScoreMap: route key -> score
  consecutiveErrors,       \* this.consecutiveErrors
  backoffDelay,            \* this.backoffDelay
  tokenScanPromise,        \* this.tokenScanPromise: 0 is null, else the download's number
  jupiterApi,              \* which JupiterAPI the constructor was given
  fetchState,              \* per fetchJupiterTokens call: "pending" or "done"
  startWaiters,            \* start calls suspended at "await this.tokenScanPromise"
  timers,                  \* pending setTimeout(() => this.processNextRoute(), d): the delays d
  intervals,               \* live setInterval timers of startContinuousScanning
  inflight,                \* evaluations suspended at "await computeRoutes(...)"
  cacheFile,               \* tradable-tokens.json
  now,                     \* Date.now()
  starts,                  \* number of start calls so far
  paper,                   \* paperTradingInstance: which PaperTrading, its config and fields
  exchangeCalls,           \* number of jupiterApi.exchange calls made so far
  rateLimiter,             \* the closure of setupJupiterAPI: its rate limiter and the callers inside
  last                     \* what the last step did (history, for the properties)

vars == <<tokenMap, knownGoodTokens, blacklistedTokens, opportunities, routeQueue,
          isScanning, scanInterval, currentlyActiveRequests, routeScoreMap,
          consecutiveErrors, backoffDelay, tokenScanPromise, jupiterApi, fetchState, startWaiters, timers,
          intervals, inflight, cacheFile, now, starts, paper, exchangeCalls, rateLimiter,
          last>>

\* the fields of the scanner and its environment, without the note of the last step
scannerVars == <<tokenMap, knownGoodTokens, blacklistedTokens, opportunities, routeQueue,
                 isScanning, scanInterval, currentlyActiveRequests, routeScoreMap,
                 consecutiveErrors, backoffDelay, tokenScanPromise, jupiterApi, fetchState,
                 startWaiters, timers, intervals, inflight, cacheFile, now, starts>>

\* the whole state as one record, so that a handler is a function from state to states
This ==
  [tokenMap |-> tokenMap, knownGoodTokens |-> knownGoodTokens,
   blacklistedTokens |-> blacklistedTokens, opportunities |-> opportunities,
   routeQueue |-> routeQueue, isScanning |-> isScanning, scanInterval |-> scanInterval,
   currentlyActiveRequests |-> currentlyActiveRequests, routeScoreMap |-> routeScoreMap,
   consecutiveErrors |-> consecutiveErrors, backoffDelay |-> backoffDelay,
   tokenScanPromise |-> tokenScanPromise, jupiterApi |-> jupiterApi,
   fetchState |-> fetchState, startWaiters |-> startWaiters, timers |-> timers,
   intervals |-> intervals, inflight |-> inflight, cacheFile |-> cacheFile,
   now |-> now, starts |-> starts, last |-> last]

Becomes(s) ==
  /\ tokenMap' = s.tokenMap
  /\ knownGoodTokens' = s.knownGoodTokens
  /\ blacklistedTokens' = s.blacklistedTokens
  /\ opportunities' = s.opportunities
  /\ routeQueue' = s.routeQueue
  /\ isScanning' = s.isScanning
  /\ scanInterval' = s.scanInterval
  /\ currentlyActiveRequests' = s.currentlyActiveRequests
  /\ routeScoreMap' = s.routeScoreMap
  /\ consecutiveErrors' = s.consecutiveErrors
  /\ backoffDelay' = s.backoffDelay
  /\ tokenScanPromise' = s.tokenScanPromise
  /\ jupiterApi' = s.jupiterApi
  /\ fetchState' = s.fetchState
  /\ startWaiters' = s.startWaiters
  /\ timers' = s.timers
  /\ intervals' = s.intervals
  /\ inflight' = s.inflight
  /\ cacheFile' = s.cacheFile
  /\ now' = s.now
  /\ starts' = s.starts
  /\ last' = s.last
  /\ UNCHANGED <<paper, exchangeCalls, rateLimiter>>

(***************************************************************************)
(* Route keys, scores and the queue order                                  *)
(***************************************************************************)
\* route.join('-')
RECURSIVE getRouteKey(_)
getRouteKey(route) ==
  IF Len(route) = 0 THEN <<>>
  ELSE IF Len(route) = 1 THEN <<route[1]>>
  ELSE <<route[1], "-">> \o getRouteKey(Tail(route))

\* this.routeScoreMap.get(routeKey) || 1.0 : a missing key and the score 0 give 1.0
StoredScore(s, routeKey) ==
  IF routeKey \in DOMAIN s.routeScoreMap /\ s.routeScoreMap[routeKey] # 0
  THEN s.routeScoreMap[routeKey]
  ELSE ScoreOne

\* a getRoutePriority that forgets the stored score
getRoutePriorityForgets(s, routeKey) == ScoreOne
\* getRoutePriority(routeKey, pattern)
getRoutePriority(s, routeKey) == StoredScore(s, routeKey)

\* this.routeScoreMap.set(routeKey, score)
SetScore(s, routeKey, score) ==
  [s EXCEPT !.routeScoreMap =
     [k \in DOMAIN s.routeScoreMap \cup {routeKey} |->
        IF k = routeKey THEN score ELSE s.routeScoreMap[k]]]

\* currentScore * 1.5, currentScore * 0.95, currentScore * 0.8
BoostScoreAsDecay(score) == (score * 19) \div 20
BoostScore(score) == (score * 3) \div 2
DecayScore(score) == (score * 19) \div 20
ErrorDecayScore(score) == (score * 4) \div 5

\* the comparator of sortRouteQueue: negative when a sorts before b
CompareRoutes(a, b) ==
  IF Abs(b.priority - a.priority) > ScoreOne \div 10
  THEN b.priority - a.priority
  ELSE a.lastChecked - b.lastChecked

\* the permutations of 1..n
Perms(n) == {p \in [1..n -> 1..n] : \A i, j \in 1..n : p[i] = p[j] => i = j}

\* the comparator is a consistent comparator on the entries of q (a total preorder)
ConsistentOn(q) ==
  \A i, j, k \in DOMAIN q :
    (CompareRoutes(q[i], q[j]) <= 0 /\ CompareRoutes(q[j], q[k]) <= 0)
      => CompareRoutes(q[i], q[k]) <= 0

\* p orders q by the comparator and keeps equal entries in their order (a stable sort)
StableSorted(q, p) ==
  \A i, j \in DOMAIN q :
    i < j => \/ CompareRoutes(q[p[i]], q[p[j]]) < 0
             \/ CompareRoutes(q[p[i]], q[p[j]]) = 0 /\ p[i] < p[j]

\* Array.prototype.sort: the stable sorted order when the comparator is consistent
\* on the entries; with an inconsistent comparator the order is implementation-defined
SortOutcomes(q) ==
  LET n == Len(q)
      ok == {p \in Perms(n) : ConsistentOn(q) => StableSorted(q, p)}
  IN {[i \in 1..n |-> q[p[i]]] : p \in ok}

sortRouteQueue(s) ==
  {[s EXCEPT !.routeQueue = q] : q \in SortOutcomes(s.routeQueue)}

(***************************************************************************)
(* Registry: token classification, cache, route generation                 *)
(***************************************************************************)
\* this.blacklistedTokens.has(mint) || (this.tokenMap[mint]?.blacklisted ?? false)
IsBlacklisted(s, mint) ==
  \/ mint \in s.blacklistedTokens
  \/ mint \in DOMAIN s.tokenMap /\ s.tokenMap[mint].blacklisted

\* this.knownGoodTokens.has(mint) || (this.tokenMap[mint]?.verified ?? false)
IsVerified(s, mint) ==
  \/ mint \in s.knownGoodTokens
  \/ mint \in DOMAIN s.tokenMap /\ s.tokenMap[mint].verified

\* does the loop of generateTriangularRoutes skip this mint for the blacklist
SkipsBlacklisted(s, mint) ==
  mint \in s.blacklistedTokens \/ s.tokenMap[mint].blacklisted

generateTriangularRoutes(s) ==
  LET keep(mint) ==
        /\ mint \in DOMAIN s.tokenMap
        /\ mint # SOL
        /\ ~SkipsBlacklisted(s, mint)
        /\ (s.tokenMap[mint].verified \/ mint \in s.knownGoodTokens)
      kept == SelectSeq(MintOrder, keep)
  IN [i \in 1..Len(kept) |-> <<SOL, kept[i], SOL>>]

generateAllRoutes(s) ==
  LET routes == generateTriangularRoutes(s)
      queued == [i \in 1..Len(routes) |->
                   [route |-> routes[i], pattern |-> "triangular",
                    priority |-> getRoutePriority(s, getRouteKey(routes[i])),
                    lastChecked |-> 0]]
  IN sortRouteQueue([s EXCEPT !.routeQueue = queued])

\* a load that forgets the blacklist of the file
loadTradableTokensCacheKnownGoodOnly(s) ==
  IF s.cacheFile.exists /\ ~s.cacheFile.stale
  THEN [s EXCEPT !.knownGoodTokens = @ \cup s.cacheFile.tradableTokens]
  ELSE s

loadTradableTokensCache(s) ==
  IF s.cacheFile.exists /\ ~s.cacheFile.stale
  THEN [s EXCEPT !.knownGoodTokens = @ \cup s.cacheFile.tradableTokens,
                 !.blacklistedTokens = @ \cup s.cacheFile.blacklistedTokens]
  ELSE s

saveTradableTokensCache(s) ==
  [s EXCEPT !.cacheFile = [exists |-> TRUE, stale |-> FALSE,
                           tradableTokens |-> s.knownGoodTokens,
                           blacklistedTokens |-> s.blacklistedTokens]]

\* initialize(tokenMap), up to the return; the download it starts completes later
initialize(s) ==
  LET s1 == [s EXCEPT !.knownGoodTokens = @ \cup {SOL} \cup stablecoins]
      s2 == loadTradableTokensCache(s1)
      added == {a \in TokenList : a \notin s2.blacklistedTokens}
      s3 == [s2 EXCEPT !.tokenMap =
               [a \in DOMAIN s2.tokenMap \cup added |->
                  IF a \in added
                  THEN [verified |-> a \in s2.knownGoodTokens, blacklisted |-> FALSE]
                  ELSE s2.tokenMap[a]]]
      id == Len(s3.fetchState) + 1
      s4 == [s3 EXCEPT !.tokenScanPromise = id,
                       !.fetchState = Append(@,
                          IF Cardinality(s3.knownGoodTokens) < MinVerifiedTokens
                          THEN "pending" ELSE "done")]
  IN generateAllRoutes(s4)

\* the responses of https://token.jup.ag/all: a failure, or a token list, given by
\* its length-one prefix (only the first token of a list has an effect, see below)
TokenListResponses ==
  {<<"failed", <<>> >>} \cup {<<"ok", <<>> >>} \cup {<<"ok", <<m>> >> : m \in Mints}

\* a refresh that forgets its classifications when the download fails
fetchJupiterTokensForgetting(s, response) ==
  IF response[1] = "failed"
  THEN {[s EXCEPT !.knownGoodTokens = {}, !.routeQueue = <<>>]}
  ELSE IF response[2] # <<>>
  THEN {[s EXCEPT !.knownGoodTokens = @ \cup {response[2][1]}]}
  ELSE LET dropped == {a \in DOMAIN s.tokenMap : a \notin s.knownGoodTokens}
           s1 == [s EXCEPT !.blacklistedTokens = @ \cup dropped,
                           !.tokenMap = [a \in DOMAIN s.tokenMap |->
                              IF a \in dropped
                              THEN [s.tokenMap[a] EXCEPT !.blacklisted = TRUE]
                              ELSE s.tokenMap[a]]]
       IN generateAllRoutes(saveTradableTokensCache(s1))

\* fetchJupiterTokens from the response on.  With a list that is not empty the
\* first forEach callback adds its token to knownGoodTokens and then calls
\* this.tokenMap.has, which raises the TypeError the catch of line 1982 logs.
fetchJupiterTokens(s, response) ==
  IF response[1] = "failed" THEN {s}
  ELSE IF response[2] # <<>>
  THEN {[s EXCEPT !.knownGoodTokens = @ \cup {response[2][1]}]}
  ELSE LET dropped == {a \in DOMAIN s.tokenMap : a \notin s.knownGoodTokens}
           s1 == [s EXCEPT !.blacklistedTokens = @ \cup dropped,
                           !.tokenMap = [a \in DOMAIN s.tokenMap |->
                              IF a \in dropped
                              THEN [s.tokenMap[a] EXCEPT !.blacklisted = TRUE]
                              ELSE s.tokenMap[a]]]
       IN generateAllRoutes(saveTradableTokensCache(s1))

(***************************************************************************)
(* Quote provider: JupiterAPI.computeRoutes                                *)
(***************************************************************************)
\* what the constructor may be given: the wrapper of src/jupiter-api.ts, or another
\* implementation of the interface JupiterAPI whose computeRoutes rejects on failure
JupiterApis == {"setupJupiterAPI", "rejecting"}

\* the output amounts a quote may return, in smallest units
QuoteAmounts == {100000, 102000}

\* what the quote endpoint does with one request
QuoteResponses ==
  [kind : {"routes"}, outAmount : QuoteAmounts, class : {None}, asset : {None}]
    \cup [kind : {"no_routes", "timeout"}, outAmount : {0}, class : {None},
          asset : {None}]
    \cup [kind : {"http_error"}, outAmount : {0}, class : {"other"}, asset : {None}]
    \cup [kind : {"http_error"}, outAmount : {0}, class : {"not_tradable"},
          asset : Mints \cup {None}]

Value(routesInfos) == [tag |-> "value", routesInfos |-> routesInfos]
Throw(class, asset) == [tag |-> "throw", class |-> class, asset |-> asset]

\* computeRoutes of setupJupiterAPI: the timeout and every other failure is caught
\* by the outer catch, which returns { routesInfos: [] } instead of throwing
computeRoutes(response) ==
  IF response.kind = "routes" THEN Value(<<response.outAmount>>)
  ELSE Value(<<>>)

\* a JupiterAPI whose computeRoutes rejects with the failure
rejectingComputeRoutes(response) ==
  CASE response.kind = "routes" -> Value(<<response.outAmount>>)
    [] response.kind = "no_routes" -> Value(<<>>)
    [] response.kind = "timeout" -> Throw("other", None)
    [] OTHER -> Throw(response.class, response.asset)

CallComputeRoutes(api, response) ==
  IF api = "setupJupiterAPI" THEN computeRoutes(response)
  ELSE rejectingComputeRoutes(response)

(***************************************************************************)
(* Opportunity evaluator: checkRouteForArbitrage                           *)
(***************************************************************************)
\* config.arbitrage.minimumProfitThreshold (0.008), in basis points
MinProfitBp == 80
\* 1 / 0.00001: the gas estimate per hop is one unit of 1/GasPerToken token
GasPerToken == 100000
\* the gas estimate of one hop (0.00001 token) in smallest units
GasPerHop == Pow10(Decimals) \div GasPerToken

\* lines 2641-2644: profit = endAmountInTokens - startAmountInTokens, for a trade
\* of size tokens whose final amount is currentAmount smallest units
GrossProfitOf(size, currentAmount) == currentAmount - size * Pow10(Decimals)

\* a net profit that leaves the gas estimate out
NetProfitOfWithoutGas(size, route, currentAmount) ==
  GrossProfitOf(size, currentAmount)

\* lines 2651-2654: adjustedProfit = profit - 0.00001 * (route.length - 1)
NetProfitOf(size, route, currentAmount) ==
  GrossProfitOf(size, currentAmount) - (Len(route) - 1) * GasPerHop

\* lines 2648-2658: adjustedProfitPercentage >= minThreshold, with the threshold in
\* basis points
MeetsThresholdOf(size, thresholdBp, route, currentAmount) ==
  NetProfitOf(size, route, currentAmount) * 10000
    >= thresholdBp * size * Pow10(Decimals)

\* lines 2658-2672: the Opportunity (with profit: adjustedProfit) or null
VerdictOf(size, thresholdBp, route, currentAmount) ==
  IF MeetsThresholdOf(size, thresholdBp, route, currentAmount)
  THEN [kind |-> "opportunity", profit |-> NetProfitOf(size, route, currentAmount)]
  ELSE [kind |-> "null"]

\* the same with this.tradeSize and the configured threshold
NetProfit(route, currentAmount) == NetProfitOf(tradeSize, route, currentAmount)

MeetsThreshold(route, currentAmount) ==
  MeetsThresholdOf(tradeSize, MinProfitBp, route, currentAmount)

Verdict(route, currentAmount) == VerdictOf(tradeSize, MinProfitBp, route, currentAmount)

\* TriangularScanner.scanForOpportunities (src/main.ts lines 408-428): the profit
\* is endAmount - startAmount, no gas estimate is subtracted, and the route is
\* profitable when profitPercentage > minimumProfitThreshold * 100
TriangularVerdictOf(size, thresholdBp, currentAmount) ==
  IF GrossProfitOf(size, currentAmount) * 10000 > thresholdBp * size * Pow10(Decimals)
  THEN [kind |-> "opportunity", profit |-> GrossProfitOf(size, currentAmount)]
  ELSE [kind |-> "null"]

\* the loop head of checkRouteForArbitrage for output position i (1-based): either an
\* early "return null", or the suspension at the computeRoutes call of that hop
HopStart(s, route, i, currentAmount) ==
  IF route[i] \notin DOMAIN s.tokenMap THEN [kind |-> "null"]
  ELSE IF currentAmount <= 0 THEN [kind |-> "null"]
  ELSE [kind |-> "await", i |-> i, currentAmount |-> currentAmount]

\* checkRouteForArbitrage from its call to its first suspension or early return
checkRouteBegin(s, route) ==
  IF route[1] \notin DOMAIN s.tokenMap THEN [kind |-> "null"]
  ELSE HopStart(s, route, 2, tradeSize * Pow10(Decimals))

\* a marking that takes the mint off the blacklist
MarkVerifiedClearingBlacklist(s, mint) ==
  IF mint \in s.knownGoodTokens /\ mint \notin s.blacklistedTokens
  THEN [state |-> s, threw |-> FALSE]
  ELSE [state |-> [s EXCEPT !.knownGoodTokens = @ \cup {mint},
                            !.blacklistedTokens = @ \ {mint},
                            !.tokenMap = [m \in DOMAIN @ |->
                               IF m = mint THEN [@[m] EXCEPT !.blacklisted = FALSE]
                               ELSE @[m]]],
        threw |-> TRUE]

\* lines 2586-2603 for one mint: a mint that is not yet known good is added, and
\* this.tokenMap.has then raises a TypeError
MarkVerified(s, mint) ==
  IF mint \in s.knownGoodTokens THEN [state |-> s, threw |-> FALSE]
  ELSE [state |-> [s EXCEPT !.knownGoodTokens = @ \cup {mint}], threw |-> TRUE]

\* an evaluation that takes the assets of a hop off the known-good set when
\* the quote of the hop fails
checkRouteResumeUnverifying(s, route, i, result) ==
  LET unverified == [s EXCEPT !.knownGoodTokens = @ \ {route[i - 1], route[i]}]
  IN IF result.tag = "throw"
     THEN [state |-> unverified,
           outcome |-> [kind |-> "error", class |-> result.class,
                        asset |-> result.asset]]
     ELSE IF result.routesInfos = <<>>
     THEN [state |-> unverified, outcome |-> [kind |-> "null"]]
     ELSE LET m1 == MarkVerified(s, route[i - 1])
              m2 == MarkVerified(m1.state, route[i])
              typeError == [kind |-> "error", class |-> "other", asset |-> None]
              outAmount == result.routesInfos[1]
          IN IF m1.threw THEN [state |-> m1.state, outcome |-> typeError]
             ELSE IF m2.threw THEN [state |-> m2.state, outcome |-> typeError]
             ELSE IF i = Len(route)
             THEN [state |-> m2.state, outcome |-> Verdict(route, outAmount)]
             ELSE [state |-> m2.state,
                   outcome |-> HopStart(m2.state, route, i + 1, outAmount)]

\* checkRouteForArbitrage from the return of the computeRoutes call of hop i to the
\* next suspension, the verdict, or the error it throws: [state, outcome]
checkRouteResume(s, route, i, result) ==
  IF result.tag = "throw"
  THEN [state |-> s, outcome |-> [kind |-> "error", class |-> result.class,
                                  asset |-> result.asset]]
  ELSE IF result.routesInfos = <<>>
  THEN [state |-> s, outcome |-> [kind |-> "null"]]
  ELSE LET m1 == MarkVerified(s, route[i - 1])
           m2 == MarkVerified(m1.state, route[i])
           typeError == [kind |-> "error", class |-> "other", asset |-> None]
           outAmount == result.routesInfos[1]
       IN IF m1.threw THEN [state |-> m1.state, outcome |-> typeError]
          ELSE IF m2.threw THEN [state |-> m2.state, outcome |-> typeError]
          ELSE IF i = Len(route)
          THEN [state |-> m2.state, outcome |-> Verdict(route, outAmount)]
          ELSE [state |-> m2.state,
                outcome |-> HopStart(m2.state, route, i + 1, outAmount)]

(***************************************************************************)
(* Scan scheduler: processNextRoute                                        *)
(***************************************************************************)
\* setTimeout(() => this.processNextRoute(), delay)
SetTimeout(s, delay) == [s EXCEPT !.timers = Append(@, delay)]

\* this.tokenMap.size > 0: the plain object has no property size, and
\* undefined > 0 is false
TokenMapSizePositive(s) == FALSE

\* a push that appends without sorting
PushOpportunityUnsorted(list, profit) ==
  SubSeq(Append(list, profit), 1, Min(Len(list) + 1, MaxOpportunities))
\* this.opportunities after push, sort by profit (highest first) and slice(0, 50)
PushOpportunity(list, profit) ==
  LET before == SelectSeq(list, LAMBDA x : x >= profit)
      after == SelectSeq(list, LAMBDA x : x < profit)
      sorted == before \o <<profit>> \o after
  IN SubSeq(sorted, 1, Min(Len(sorted), MaxOpportunities))

OnVerdictKeepsErrors(s, entry, outcome) ==
  LET routeKey == getRouteKey(entry.route)
  IN IF outcome.kind = "opportunity"
     THEN SetScore([s EXCEPT !.opportunities = PushOpportunity(@, outcome.profit)],
                   routeKey, BoostScore(StoredScore(s, routeKey)))
     ELSE SetScore(s, routeKey, DecayScore(StoredScore(s, routeKey)))
\* lines 2188-2226: the evaluation returned an Opportunity or null
OnVerdict(s, entry, outcome) ==
  LET routeKey == getRouteKey(entry.route)
      s1 == [s EXCEPT !.consecutiveErrors = 0, !.backoffDelay = requestDelay]
  IN IF outcome.kind = "opportunity"
     THEN SetScore([s1 EXCEPT !.opportunities = PushOpportunity(@, outcome.profit)],
                   routeKey, BoostScore(StoredScore(s1, routeKey)))
     ELSE SetScore(s1, routeKey, DecayScore(StoredScore(s1, routeKey)))

NextBackoffUncapped(delay) == (delay * 3) \div 2
\* Math.min(this.backoffDelay * 1.5, this.maxBackoffDelay)
NextBackoff(delay) == Min((delay * 3) \div 2, maxBackoffDelay)

\* lines 2285-2297: the score decay and the backoff of the catch block
ErrorDecayAndBackoff(s, entry) ==
  LET routeKey == getRouteKey(entry.route)
      s1 == SetScore(s, routeKey, ErrorDecayScore(StoredScore(s, routeKey)))
  IN IF s1.consecutiveErrors > ErrorThreshold
     THEN [s1 EXCEPT !.backoffDelay = NextBackoff(@)]
     ELSE s1

\* the mints the fallback of lines 2257-2271 blacklists, in route order
FallbackBlacklist(s, route) ==
  SelectSeq(route, LAMBDA mint : mint # SOL /\ mint \notin s.knownGoodTokens)

\* a catch block whose second blacklisting of a token takes it off the blacklist
OnErrorToggling(s, entry, error) ==
  LET s1 == [s EXCEPT !.consecutiveErrors = @ + 1]
      toggle(set, mint) == IF mint \in set THEN set \ {mint} ELSE set \cup {mint}
  IN IF error.class = "not_tradable" /\ error.asset # None
     THEN [state |-> [s1 EXCEPT !.blacklistedTokens = toggle(@, error.asset)],
           aborted |-> TRUE]
     ELSE IF error.class = "not_tradable" /\ FallbackBlacklist(s1, entry.route) # <<>>
     THEN [state |-> [s1 EXCEPT !.blacklistedTokens =
                        toggle(@, FallbackBlacklist(s1, entry.route)[1])],
           aborted |-> TRUE]
     ELSE IF error.class = "not_tradable"
     THEN [state |-> ErrorDecayAndBackoff(saveTradableTokensCache(s1), entry),
           aborted |-> FALSE]
     ELSE [state |-> ErrorDecayAndBackoff(s1, entry), aborted |-> FALSE]

\* lines 2227-2298, the catch block: [state, aborted].  aborted: the block itself
\* threw (this.tokenMap.has is not a function), so processNextRoute ends there
OnError(s, entry, error) ==
  LET s1 == [s EXCEPT !.consecutiveErrors = @ + 1]
  IN IF error.class = "not_tradable" /\ error.asset # None
     THEN [state |-> [s1 EXCEPT !.blacklistedTokens = @ \cup {error.asset}],
           aborted |-> TRUE]
     ELSE IF error.class = "not_tradable" /\ FallbackBlacklist(s1, entry.route) # <<>>
     THEN [state |-> [s1 EXCEPT !.blacklistedTokens =
                        @ \cup {FallbackBlacklist(s1, entry.route)[1]}],
           aborted |-> TRUE]
     ELSE IF error.class = "not_tradable"
     THEN [state |-> ErrorDecayAndBackoff(saveTradableTokensCache(s1), entry),
           aborted |-> FALSE]
     ELSE [state |-> ErrorDecayAndBackoff(s1, entry), aborted |-> FALSE]

\* nextRoute.route.some(mint => blacklisted)
ContainsBlacklisted(s, route) == \E i \in DOMAIN route : IsBlacklisted(s, route[i])

\* lines 2300-2315: back into the queue unless the route holds a blacklisted token
Requeue(s, entry) ==
  IF ~ContainsBlacklisted(s, entry.route)
  THEN [s EXCEPT !.routeQueue = Append(@,
          [entry EXCEPT !.priority =
             getRoutePriority(s, getRouteKey(entry.route))])]
  ELSE s

\* this.consecutiveErrors > 3 ? this.backoffDelay : this.requestDelay
CurrentDelay(s) ==
  IF s.consecutiveErrors > ErrorThreshold THEN s.backoffDelay ELSE requestDelay

\* lines 2300-2323: re-enqueue, counters, and the timer of the next iteration
FinishIteration(s, entry) ==
  LET s1 == Requeue(s, entry)
      s2 == [s1 EXCEPT !.currentlyActiveRequests = @ - 1]
  IN SetTimeout(s2, CurrentDelay(s2))

\* what the step did, for the properties
Note(op) == [op |-> op, regenerated |-> FALSE]

EvaluationNote(s, entry, outcome, response, hop, aborted, delay) ==
  [op |-> "evaluated", regenerated |-> FALSE, route |-> entry.route,
   verdict |-> outcome.kind,
   class |-> IF outcome.kind = "error" THEN outcome.class ELSE None,
   asset |-> IF outcome.kind = "error" THEN outcome.asset ELSE None,
   response |-> response, hop |-> hop,
   scoreBefore |-> StoredScore(s, getRouteKey(entry.route)),
   errorsBefore |-> s.consecutiveErrors, backoffBefore |-> s.backoffDelay,
   aborted |-> aborted, delay |-> delay]

\* processNextRoute from the end of the evaluation (line 2186) to its end;
\* s is the state before, response the answer to the last quote call ("none"
\* when the evaluation ended without one) and hop the number of the hop it was for
AfterEvaluation(s, entry, outcome, response, hop) ==
  IF outcome.kind = "error"
  THEN LET e == OnError(s, entry, outcome)
           done == FinishIteration(e.state, entry)
       IN IF e.aborted
          THEN [e.state EXCEPT !.last =
                  EvaluationNote(s, entry, outcome, response, hop, TRUE, 0)]
          ELSE [done EXCEPT !.last =
                  EvaluationNote(s, entry, outcome, response, hop, FALSE,
                                 CurrentDelay(done))]
  ELSE LET done == FinishIteration(OnVerdict(s, entry, outcome), entry)
       IN [done EXCEPT !.last =
             EvaluationNote(s, entry, outcome, response, hop, FALSE, CurrentDelay(done))]

\* lines 2177-2183
AllTokensVerified(s, route) == \A i \in DOMAIN route : IsVerified(s, route[i])

AtMaxConcurrentNever(s) == FALSE
\* the guard of line 2153
AtMaxConcurrent(s) == s.currentlyActiveRequests >= maxConcurrentRequests

PopLastAndEvaluate(s) ==
  LET n == Len(s.routeQueue)
      nextRoute == [s.routeQueue[n] EXCEPT !.lastChecked = s.now]
      s1 == [s EXCEPT !.routeQueue = SubSeq(@, 1, n - 1),
                      !.currentlyActiveRequests = @ + 1]
      begun == checkRouteBegin(s1, nextRoute.route)
  IN IF ~AllTokensVerified(s1, nextRoute.route)
     THEN AfterEvaluation(s1, nextRoute,
            [kind |-> "error", class |-> "other", asset |-> None], "none", 0)
     ELSE IF begun.kind = "await"
     THEN [s1 EXCEPT !.inflight = Append(@,
              [entry |-> nextRoute, i |-> begun.i,
               currentAmount |-> begun.currentAmount]),
            !.last = [op |-> "pop", regenerated |-> FALSE, entry |-> nextRoute,
                      queueBefore |-> s.routeQueue]]
     ELSE AfterEvaluation(s1, nextRoute, begun, "none", 0)
\* lines 2159-2186: shift the head, stamp it, and run the evaluation to its first
\* suspension (or to its end when it ends without a quote call)
PopAndEvaluate(s) ==
  LET nextRoute == [Head(s.routeQueue) EXCEPT !.lastChecked = s.now]
      s1 == [s EXCEPT !.routeQueue = Tail(@),
                      !.currentlyActiveRequests = @ + 1]
      begun == checkRouteBegin(s1, nextRoute.route)
  IN IF ~AllTokensVerified(s1, nextRoute.route)
     THEN AfterEvaluation(s1, nextRoute,
            [kind |-> "error", class |-> "other", asset |-> None], "none", 0)
     ELSE IF begun.kind = "await"
     THEN [s1 EXCEPT !.inflight = Append(@,
              [entry |-> nextRoute, i |-> begun.i,
               currentAmount |-> begun.currentAmount]),
            !.last = [op |-> "pop", regenerated |-> FALSE, entry |-> nextRoute,
                      queueBefore |-> s.routeQueue]]
     ELSE AfterEvaluation(s1, nextRoute, begun, "none", 0)

\* processNextRoute from its call to its first suspension or return
processNextRoute(s) ==
  IF ~s.isScanning \/ s.routeQueue = <<>>
  THEN IF TokenMapSizePositive(s) /\ Cardinality(s.knownGoodTokens) > 0
       THEN {IF g.routeQueue # <<>>
             THEN [SetTimeout(g, requestDelay) EXCEPT
                     !.last = [op |-> "regenerate", regenerated |-> TRUE]]
             ELSE [g EXCEPT !.last = [op |-> "halt", regenerated |-> TRUE]]
               : g \in generateAllRoutes(s)}
       ELSE {[s EXCEPT !.last = Note("halt")]}
  ELSE IF AtMaxConcurrent(s)
  THEN {[SetTimeout(s, concurrencyRetryDelay) EXCEPT !.last = Note("retry")]}
  ELSE {PopAndEvaluate(s)}

(***************************************************************************)
(* Initial state: the scanner after its constructor                        *)
(***************************************************************************)
\* config.tokens.tokenBlacklist
ConfigBlacklists == {{}}

\* tradable-tokens.json as an earlier run may have left it
InitialCaches ==
  {[exists |-> FALSE, stale |-> FALSE, tradableTokens |-> {},
    blacklistedTokens |-> {}],
   [exists |-> TRUE, stale |-> FALSE, tradableTokens |-> OtherTokens,
    blacklistedTokens |-> {}]}

(***************************************************************************)
(* The paper ledger (PaperTrading) and executeArbitrage                    *)
(***************************************************************************)
\* ledger amounts are in units of 10^-Decimals token
Tokens(n) == n * Pow10(Decimals)

\* config.arbitrage.routeTimeout, in ms
routeTimeout == 3000
\* "~0.00005 SOL per swap on average", in ledger units
SwapGas == 5

\* the repository holds two PaperTrading classes
PaperTradings == {"paper-trading.ts", "part_003"}

\* config.paperTrading: slippageAdjustment in thousandths, successRate and
\* slippageVariation in percent, gasFee in ledger units per swap
PaperTradingConfig(enabled, slippageAdjustment, gasFeesSimulation, slippageVariation) ==
  [enabled |-> enabled, slippageAdjustment |-> slippageAdjustment,
   gasFeesSimulation |-> gasFeesSimulation, successRate |-> 95,
   gasFee |-> SwapGas, slippageVariation |-> slippageVariation]

DefaultPaperTradingConfig == PaperTradingConfig(TRUE, 5, TRUE, 0)

PaperTradingConfigs ==
  {PaperTradingConfig(e, a, g, 0) : e \in BOOLEAN, a \in {0, 5}, g \in BOOLEAN}

CheckedPaperTradingConfigs ==
  {PaperTradingConfig(e, 0, TRUE, v) : e \in BOOLEAN, v \in {0, 1}}

\* config.paperTrading.initialBalance
DefaultInitialBalance == (SOL :> Tokens(10)) @@ (USDC :> Tokens(100))

\* the configured balances, and a ledger funded with USDC alone
InitialBalances ==
  {DefaultInitialBalance, (SOL :> 0) @@ (USDC :> Tokens(100))}

\* new PaperTrading(config, connection, tokenInfo, logger)
NewPaperTrading(impl, config, initialBalance) ==
  [impl |-> impl, config |-> config, balances |-> initialBalance, tradeHistory |-> <<>>]

\* getBalance(tokenMint)
getBalance(p, tokenMint) ==
  IF tokenMint \in DOMAIN p.balances THEN p.balances[tokenMint] ELSE 0

\* (this.balances[tokenMint] || 0) + amount
Credit(balances, tokenMint, amount) ==
  [m \in DOMAIN balances \cup {tokenMint} |->
     (IF m \in DOMAIN balances THEN balances[m] ELSE 0)
     + (IF m = tokenMint THEN amount ELSE 0)]

\* what a caller gets back; the TradeRecord of paper-trading.ts carries the same
\* two facts in its fields successful and failureReason
Succeeded == [success |-> TRUE, reason |-> None]
Failed(reason) == [success |-> FALSE, reason |-> reason]

failureReasons ==
  {"Transaction timed out", "Slippage exceeded", "Insufficient liquidity",
   "Price changed during execution", "Order book was updated",
   "DEX temporarily unavailable"}

\* the results of Math.random() < successRate
IsSuccessfulDraws(successRate) ==
  {b \in BOOLEAN : IF b THEN successRate > 0 ELSE successRate < 100}

\* PaperTrading.executeTrade of paper-trading.ts: the ledgers and results it may leave
executeTrade_paper_trading(p, opportunity) ==
  LET startToken == opportunity.route[1]
      endToken == opportunity.route[Len(opportunity.route)]
      adjustedEndAmount ==
        (opportunity.endAmount * (1000 - p.config.slippageAdjustment)) \div 1000
      gasUsed == IF p.config.gasFeesSimulation
                 THEN Len(opportunity.steps) * SwapGas ELSE 0
      tradeRecord(isSuccessful) ==
        [startAmount |-> opportunity.startAmount,
         profit |-> adjustedEndAmount - opportunity.startAmount - gasUsed,
         successful |-> isSuccessful]
      deducted == Credit(p.balances, startToken, 0 - opportunity.startAmount)
      added == Credit(deducted, endToken, adjustedEndAmount)
      charged == IF p.config.gasFeesSimulation
                 THEN Credit(added, SOL, 0 - gasUsed) ELSE added
      failed ==
        {[paper |-> [p EXCEPT !.tradeHistory = Append(@, tradeRecord(FALSE))],
          result |-> Failed(reason)] : reason \in failureReasons}
      succeeded ==
        {[paper |-> [p EXCEPT !.balances = charged,
                              !.tradeHistory = Append(@, tradeRecord(TRUE))],
          result |-> Succeeded]}
  IN UNION {IF isSuccessful THEN succeeded ELSE failed :
              isSuccessful \in IsSuccessfulDraws(p.config.successRate)}

\* the results of Math.random() in the slippage of one swap, in halves
SlippageDraws(slippageVariation) == IF slippageVariation > 0 THEN {0, 1} ELSE {0}

\* the swaps of part_003's executeTrade from step i on: each adds its output
RECURSIVE SimulateSwaps(_, _, _, _)
SimulateSwaps(balances, steps, i, slippageVariation) ==
  IF i > Len(steps) THEN {balances}
  ELSE UNION {
    LET outputAmount ==
          steps[i].outputAmount - (steps[i].outputAmount * draw * slippageVariation) \div 200
    IN SimulateSwaps(Credit(balances, steps[i].outputMint, outputAmount),
                     steps, i + 1, slippageVariation)
    : draw \in SlippageDraws(slippageVariation)}

\* PaperTrading.executeTrade of part_003
executeTrade_part_003(p, opportunity) ==
  LET startToken == opportunity.route[1]
      gasFeesSOL == p.config.gasFee * Len(opportunity.steps)
      charged == Credit(p.balances, SOL, 0 - gasFeesSOL)
      deducted == Credit(charged, startToken, 0 - opportunity.startAmount)
      trade == [startAmount |-> opportunity.startAmount,
                profit |-> opportunity.profit - gasFeesSOL,
                successful |-> TRUE]
  IN IF getBalance(p, startToken) < opportunity.startAmount
     THEN {[paper |-> p, result |-> Failed("insufficient_balance")]}
     ELSE {[paper |-> [p EXCEPT !.balances = balances,
                                !.tradeHistory = Append(@, trade)],
            result |-> Succeeded]
           : balances \in SimulateSwaps(deducted, opportunity.steps, 1,
                                        p.config.slippageVariation)}

\* paperTradingInstance.executeTrade(opportunity, jupiterApi)
executeTrade(p, opportunity) ==
  IF p.impl = "paper-trading.ts"
  THEN executeTrade_paper_trading(p, opportunity)
  ELSE executeTrade_part_003(p, opportunity)

\* executeArbitrage without its freshness check
executeArbitrageUnchecked(p, calls, t, opportunity) ==
  LET swaps == Len(opportunity.steps)
  IN IF p.config.enabled
     THEN {[paper |-> o.paper, exchangeCalls |-> calls, result |-> o.result]
            : o \in executeTrade(p, opportunity)}
     ELSE {[paper |-> p, exchangeCalls |-> calls + k,
            result |-> Failed("execution_error")] : k \in 1..swaps}
          \cup {[paper |-> p, exchangeCalls |-> calls + swaps, result |-> Succeeded]}

\* executeArbitrage(jupiterApi, opportunity, tokenMap, logger, paperTradingInstance)
\* called at time t: the ledger, the exchange-call count and the result it may leave
executeArbitrage(p, calls, t, opportunity) ==
  LET timeSinceDiscovery == t - opportunity.timestamp
      swaps == Len(opportunity.steps)
  IN IF timeSinceDiscovery > routeTimeout
     THEN {[paper |-> p, exchangeCalls |-> calls, result |-> Failed("expired")]}
     ELSE IF p.config.enabled
     THEN {[paper |-> o.paper, exchangeCalls |-> calls, result |-> o.result]
            : o \in executeTrade(p, opportunity)}
     ELSE {[paper |-> p, exchangeCalls |-> calls + k,
            result |-> Failed("execution_error")] : k \in 1..swaps}
          \cup {[paper |-> p, exchangeCalls |-> calls + swaps, result |-> Succeeded]}

(***************************************************************************)
(* Rate limiter of the Jupiter API wrappers                                *)
(***************************************************************************)
\* the window of the limit, the buffer added to a wait, the age at which
\* rateLimitRequest drops a time stamp, in milliseconds, and the longest history
RateWindow == 1000
WaitBuffer == 100
HistoryAge == 60000
historyLimit == 100
\* Date.now() when the wrapper is made: more than one window after time 0
FirstClock == 2 * RateWindow
\* the clock is looked at every WaitBuffer milliseconds
ClockStep == WaitBuffer
\* the wrappers of the repository and the methods of each that pass the limiter
LimiterFiles == {"jupiter-api.ts", "main.ts"}
ApiMethods(file) ==
  IF file = "jupiter-api.ts" THEN {"computeRoutes", "getQuote", "exchange"}
  ELSE {"computeRoutes", "exchange"}

\* setupJupiterAPI(requestsPerSecond): the variables of the closure, the callers
\* suspended at the setTimeout of the limiter (the times their timers are due),
\* the clock, and as history the times of all admissions and whether a call ever
\* entered the limiter while another was suspended in it
setupJupiterAPI(file, requestsPerSecond) ==
  [file |-> file, requestsPerSecond |-> requestsPerSecond, requestHistory |-> <<>>,
   lastRequestTime |-> 0, sleeping |-> <<>>, clock |-> FirstClock, calls |-> 0,
   admitted |-> <<>>, overlapped |-> FALSE]

\* rateLimitRequest of src/jupiter-api.ts after its wait, if any: the request is
\* recorded with the time it is admitted at, and the history is trimmed
rateLimitRequestResume(l) ==
  LET pushed == Append(l.requestHistory, l.clock)
  IN [l EXCEPT !.requestHistory =
                 IF Len(pushed) > historyLimit
                 THEN SubSeq(pushed, Len(pushed) - historyLimit + 1, Len(pushed))
                 ELSE pushed,
               !.admitted = Append(@, l.clock)]

\* rateLimitRequest of src/jupiter-api.ts up to its await or, without one, its end
rateLimitRequest(l) ==
  LET recentRequests ==
        SelectSeq(l.requestHistory, LAMBDA time : l.clock - time < HistoryAge)
      inLastSecond == SelectSeq(recentRequests, LAMBDA time : l.clock - time < RateWindow)
      oldestInWindow ==
        CHOOSE time \in Range(inLastSecond) : \A u \in Range(inLastSecond) : time <= u
      timeToWait == RateWindow - (l.clock - oldestInWindow) + WaitBuffer
      l1 == [l EXCEPT !.requestHistory = recentRequests]
  IN IF /\ Len(recentRequests) > 0
        /\ Len(inLastSecond) >= l.requestsPerSecond
        /\ timeToWait > 0
     THEN [l1 EXCEPT !.sleeping = Append(@, l.clock + timeToWait)]
     ELSE rateLimitRequestResume(l1)

\* getRateLimit of src/main.ts after its wait, if any
getRateLimitResume(l) ==
  [l EXCEPT !.lastRequestTime = l.clock, !.admitted = Append(@, l.clock)]

\* getRateLimit of src/main.ts up to its await or, without one, its end
getRateLimit(l) ==
  LET minInterval == RateWindow \div l.requestsPerSecond
      elapsed == l.clock - l.lastRequestTime
  IN IF elapsed < minInterval
     THEN [l EXCEPT !.sleeping = Append(@, l.clock + (minInterval - elapsed))]
     ELSE getRateLimitResume(l)

ScannerConstructed ==
  /\ tokenMap = <<>>
  /\ knownGoodTokens = {}
  /\ blacklistedTokens \in ConfigBlacklists
  /\ opportunities = <<>>
  /\ routeQueue = <<>>
  /\ isScanning = FALSE
  /\ scanInterval = FALSE
  /\ currentlyActiveRequests = 0
  /\ routeScoreMap = <<>>
  /\ consecutiveErrors = 0
  /\ backoffDelay = initialBackoffDelay
  /\ tokenScanPromise = 0
  /\ jupiterApi \in JupiterApis
  /\ fetchState = <<>>
  /\ startWaiters = <<>>
  /\ timers = <<>>
  /\ intervals = 0
  /\ inflight = <<>>
  /\ cacheFile \in InitialCaches
  /\ now = 1
  /\ starts = 0
  /\ last = Note("constructed")

\* the state after construction: the scanner, and the ledger of startArbitrageBot
Init ==
  /\ ScannerConstructed
  /\ paper = NewPaperTrading("paper-trading.ts", DefaultPaperTradingConfig,
                             DefaultInitialBalance)
  /\ exchangeCalls = 0
  /\ rateLimiter = setupJupiterAPI("jupiter-api.ts", 1)

(***************************************************************************)
(* Actions                                                                 *)
(***************************************************************************)
\* scanner.initialize(tokenMap); maxInits bounds the number of calls
Initialize(maxInits) ==
  /\ Len(fetchState) < maxInits
  /\ \E s \in initialize(This) :
       Becomes([s EXCEPT !.last = [op |-> "initialize", regenerated |-> TRUE]])

\* the download started by initialize ends: fetchJupiterTokens runs from its
\* first await to its return, and the promise settles
FetchCompletes(id, response) ==
  /\ fetchState[id] = "pending"
  /\ \E s \in fetchJupiterTokens([This EXCEPT !.fetchState[id] = "done"], response) :
       Becomes([s EXCEPT !.last =
                  [op |-> "fetch",
                   regenerated |-> (response[1] = "ok" /\ response[2] = <<>>),
                   response |-> response,
                   knownGoodBefore |-> knownGoodTokens,
                   blacklistedBefore |-> blacklistedTokens,
                   tokenMapBefore |-> tokenMap, queueBefore |-> routeQueue]])

\* startContinuousScanning after "await this.tokenScanPromise" (lines 2089-2114)
StartProceed(s) ==
  LET s1 == [s EXCEPT !.isScanning = TRUE]
  IN {[s2 EXCEPT !.intervals = @ + 1, !.scanInterval = TRUE]
        : s2 \in processNextRoute(s1)}

\* a call of startContinuousScanning, up to its await or, without one, to its end;
\* maxStarts bounds the number of calls
StartCall(maxStarts) ==
  /\ starts < maxStarts
  /\ LET s == [This EXCEPT !.starts = @ + 1]
     IN IF isScanning
        THEN Becomes([s EXCEPT !.last = Note("start_refused")])
        ELSE IF tokenScanPromise # 0
        THEN Becomes([s EXCEPT !.startWaiters = Append(@, tokenScanPromise),
                               !.last = Note("start_waits")])
        ELSE \E s2 \in StartProceed(s) : Becomes(s2)

\* the awaited download has settled: the suspended start call goes on
StartResumes(w) ==
  /\ fetchState[startWaiters[w]] = "done"
  /\ \E s2 \in StartProceed([This EXCEPT !.startWaiters = RemoveAt(@, w),
                                           !.tokenScanPromise = 0]) :
       Becomes(s2)

\* stopContinuousScanning while scanning (it returns false otherwise)
Stop ==
  /\ isScanning
  /\ Becomes([This EXCEPT !.isScanning = FALSE,
                          !.intervals = IF scanInterval THEN @ - 1 ELSE @,
                          !.scanInterval = FALSE,
                          !.last = Note("stop")])

\* a timer set by processNextRoute fires; the clock has advanced
TimerFires(t, maxTime) ==
  /\ now < maxTime
  /\ \E s \in processNextRoute([This EXCEPT !.timers = RemoveAt(@, t),
                                             !.now = @ + 1]) :
       Becomes(s)

\* the callback of setInterval (lines 2095-2112)
IntervalFires ==
  /\ intervals > 0
  /\ \E s \in sortRouteQueue(This) :
       Becomes([s EXCEPT !.last = Note("interval")])

\* the quote call an evaluation waits for returns
QuoteReturns(e, response) ==
  LET ev == inflight[e]
      rest == [This EXCEPT !.inflight = RemoveAt(@, e)]
      r == checkRouteResume(rest, ev.entry.route, ev.i,
                            CallComputeRoutes(jupiterApi, response))
  IN IF r.outcome.kind = "await"
     THEN Becomes([r.state EXCEPT
            !.inflight = Append(@, [entry |-> ev.entry, i |-> r.outcome.i,
                                    currentAmount |-> r.outcome.currentAmount]),
            !.last = Note("hop")])
     ELSE Becomes(AfterEvaluation(r.state, ev.entry, r.outcome, response.kind,
                                  ev.i - 1))

\* the steps of a scanner whose environment makes at most maxInits calls of
\* initialize and maxStarts calls of startContinuousScanning, until the clock
\* reads maxTime, with the given token list and quote responses
NextWith(maxInits, maxStarts, maxTime, tokenLists, quotes) ==
  \/ Initialize(maxInits)
  \/ \E id \in DOMAIN fetchState, response \in tokenLists :
       FetchCompletes(id, response)
  \/ StartCall(maxStarts)
  \/ \E w \in DOMAIN startWaiters : StartResumes(w)
  \/ Stop
  \/ \E t \in DOMAIN timers : TimerFires(t, maxTime)
  \/ IntervalFires
  \/ \E e \in DOMAIN inflight, response \in quotes : QuoteReturns(e, response)

(***************************************************************************)
(* Specifications                                                          *)
(***************************************************************************)
\* the life cycle of monitorArbitrageOpportunities (lines 1303-1370): one
\* initialize and one start, in any order, every response of the environment
Next == NextWith(1, 1, MaxTime, TokenListResponses, QuoteResponses)

Spec == Init /\ [][Next]_vars

\* a quote endpoint that answers with a route or with a "not tradable" failure
RestartQuotes ==
  {r \in QuoteResponses :
     \/ r.kind = "routes" /\ r.outAmount = 100000
     \/ r.kind = "http_error" /\ r.class = "not_tradable" /\ r.asset \in {SOL, None}}

RestartTokenLists == {<<"failed", <<>> >>, <<"ok", <<>> >>}

\* a caller that starts, stops and starts again: several worker loops
NextRestart ==
  NextWith(1, MaxStarts, MaxRestartTime, RestartTokenLists, RestartQuotes)

SpecRestart == Init /\ [][NextRestart]_vars

\* a caller that calls initialize again
NextReinit ==
  NextWith(MaxInits, 1, MaxRestartTime, RestartTokenLists, RestartQuotes)

SpecReinit == Init /\ [][NextReinit]_vars

\* a long run of one loop against an endpoint that answers or times out
BackoffQuotes == {r \in QuoteResponses : r.kind \in {"routes", "timeout"}}

NextBackoffRun ==
  NextWith(1, 1, MaxBackoffTime, {<<"failed", <<>> >>}, BackoffQuotes)

\* the first run of a scanner (no tradable-tokens.json yet)
InitBackoff == Init /\ ~cacheFile.exists

SpecBackoff == InitBackoff /\ [][NextBackoffRun]_vars

\* The score update alone (lines 2205-2226 and 2285-2288), on two routes of one
\* scanner: first both routes receive the same verdicts, so that they reach the
\* same stored score, then one receives profitable verdicts and the other one
\* non-profitable ones
ScoreEntry(mint) ==
  [route |-> <<SOL, mint, SOL>>, pattern |-> "triangular", priority |-> ScoreOne,
   lastChecked |-> 0]
ProfitableEntry == ScoreEntry(USDC)
UnprofitableEntry == ScoreEntry(TokenNames[1])

ScoreVerdictOpportunity == Verdict(ProfitableEntry.route, 102000)

ScoreVerdicts == {ScoreVerdictOpportunity, [kind |-> "null"], [kind |-> "error"]}

ApplyVerdict(s, entry, outcome) ==
  IF outcome.kind = "error" THEN ErrorDecayAndBackoff(s, entry)
  ELSE OnVerdict(s, entry, outcome)

ScoreNote(prefix, run) ==
  [op |-> "scored", regenerated |-> FALSE, prefix |-> prefix, run |-> run]

ScorePrefix(outcome) ==
  /\ \/ last.op = "constructed"
     \/ last.op = "scored" /\ last.run = 0 /\ last.prefix < MaxPrefix
  /\ Becomes([ApplyVerdict(ApplyVerdict(This, ProfitableEntry, outcome),
                           UnprofitableEntry, outcome)
               EXCEPT !.last = ScoreNote(IF last.op = "scored"
                                         THEN last.prefix + 1 ELSE 1, 0)])

ScoreRun ==
  /\ \/ last.op = "constructed"
     \/ last.op = "scored" /\ last.run < MaxRun
  /\ Becomes([ApplyVerdict(ApplyVerdict(This, ProfitableEntry, ScoreVerdictOpportunity),
                           UnprofitableEntry, [kind |-> "null"])
               EXCEPT !.last = IF last.op = "scored"
                               THEN ScoreNote(last.prefix, last.run + 1)
                               ELSE ScoreNote(0, 1)])

NextScore ==
  \/ \E outcome \in ScoreVerdicts : ScorePrefix(outcome)
  \/ ScoreRun

SpecScore == Init /\ [][NextScore]_vars

(***************************************************************************)
(* C1                                                                      *)
(***************************************************************************)
ProfitableScore == StoredScore(This, getRouteKey(ProfitableEntry.route))
UnprofitableScore == StoredScore(This, getRouteKey(UnprofitableEntry.route))

\* The scores are exact here; in IEEE doubles the comparison is the same as long
\* as the boosted score is finite, which 1.5^n * score is for the n of any run
\* shorter than about 1750 consecutive profitable verdicts.
\* C1: from the same stored score, a route that received N >= 1 consecutive
\* profitable verdicts has a strictly higher score than a route that received
\* N consecutive non-profitable verdicts
C1_ProfitableScoresHigher ==
  (last.op = "scored" /\ last.run >= 1) => ProfitableScore > UnprofitableScore

\* both routes went through MaxPrefix shared verdicts and MaxRun differing ones
C1_Witness ==
  /\ last.op = "scored" /\ last.prefix = MaxPrefix /\ last.run = MaxRun
  /\ ProfitableScore > ScoreOne
  /\ UnprofitableScore < ScoreOne

(***************************************************************************)
(* C2                                                                      *)
(***************************************************************************)
QueueHoldsBlacklisted ==
  \E i \in DOMAIN routeQueue : ContainsBlacklisted(This, routeQueue[i].route)

\* C2: immediately after any generateAllRoutes, no entry of the queue contains a
\* blacklisted asset
C2_NoBlacklistedAfterGeneration == last.regenerated => ~QueueHoldsBlacklisted

(***************************************************************************)
(* C3                                                                      *)
(***************************************************************************)
\* C3: in every reachable state the number of in-flight evaluations is between 0
\* and the concurrency ceiling, and currentlyActiveRequests counts at least the
\* evaluations that wait for a quote
C3_SingleFlight ==
  /\ 0 <= currentlyActiveRequests
  /\ currentlyActiveRequests <= maxConcurrentRequests
  /\ Len(inflight) <= currentlyActiveRequests

\* a second worker loop found the ceiling reached while an evaluation was in flight
C3_Witness ==
  /\ last.op = "retry"
  /\ inflight # <<>>
  /\ routeQueue # <<>>
  /\ currentlyActiveRequests = maxConcurrentRequests

(***************************************************************************)
(* C4                                                                      *)
(***************************************************************************)
\* the entry a ranks strictly before b: higher priority, or the same priority and
\* an older lastChecked
RanksBefore(a, b) ==
  \/ a.priority > b.priority
  \/ a.priority = b.priority /\ a.lastChecked < b.lastChecked

Popped == [last.entry EXCEPT !.lastChecked = Head(last.queueBefore).lastChecked]

\* C4 as stated: every pop removes the entry of highest priority among the entries
\* in the queue, ties broken by the oldest lastChecked, and stamps lastChecked
C4_PopsHighestPriority ==
  last.op = "pop" =>
    /\ \A i \in DOMAIN last.queueBefore : ~RanksBefore(last.queueBefore[i], Popped)
    /\ last.entry.lastChecked = now

\* C4 amended: every pop removes the entry at the head of the queue, whatever
\* its priority, leaves the other entries in their order, and stamps lastChecked
\* with the current time
C4_PopsHead ==
  last.op = "pop" =>
    /\ last.entry = [Head(last.queueBefore) EXCEPT !.lastChecked = now]
    /\ routeQueue = Tail(last.queueBefore)

\* a pop took the head although an entry behind it had a priority higher by more
\* than the tolerance of the comparator
C4_Witness ==
  /\ last.op = "pop"
  /\ last.entry.lastChecked = now
  /\ \E i \in DOMAIN routeQueue :
       routeQueue[i].priority > last.entry.priority + ScoreOne \div 10

(***************************************************************************)
(* C5                                                                      *)
(***************************************************************************)
\* C5: while scanning, processNextRoute always schedules a further iteration:
\* it returns without one ("halt") only after stop, or while another iteration
\* is pending or in flight
C5_LoopNeverHalts ==
  last.op = "halt" => (~isScanning \/ timers # <<>> \/ inflight # <<>>)

(***************************************************************************)
(* C6                                                                      *)
(***************************************************************************)
NotTradableUnextracted ==
  /\ last.op = "evaluated"
  /\ last.verdict = "error"
  /\ last.class = "not_tradable"
  /\ last.asset = None

\* C6: after a "not tradable" error whose asset cannot be extracted, every
\* non-source asset of the cycle is blacklisted and the cycle is not in the queue
C6_FallbackBlacklistsAndDrops ==
  NotTradableUnextracted =>
    /\ \A i \in DOMAIN last.route :
         last.route[i] # SOL => IsBlacklisted(This, last.route[i])
    /\ \A i \in DOMAIN routeQueue : routeQueue[i].route # last.route

(***************************************************************************)
(* C7                                                                      *)
(***************************************************************************)
FailedEvaluation ==
  last.op = "evaluated" /\ last.verdict = "error" /\ ~last.aborted

CompletedEvaluation ==
  last.op = "evaluated" /\ last.verdict \in {"opportunity", "null"}

\* C8: an evaluation that completes without error, profitable or not, leaves
\* consecutiveErrors at 0 and backoffDelay at requestDelay, and the timer of the
\* next iteration is set to requestDelay
C8_SuccessResets ==
  CompletedEvaluation =>
    /\ consecutiveErrors = 0
    /\ backoffDelay = requestDelay
    /\ last.delay = requestDelay
    /\ timers[Len(timers)] = requestDelay

\* a profitable verdict after the backoff had grown
C8_Witness ==
  /\ CompletedEvaluation
  /\ last.verdict = "opportunity"
  /\ last.errorsBefore > ErrorThreshold
  /\ last.backoffBefore > requestDelay

(***************************************************************************)
(* C9                                                                      *)
(***************************************************************************)
\* C9: an evaluation whose quote call timed out ends as an error: consecutiveErrors
\* grows by one, the score of the route gets the error decay, a next iteration is
\* scheduled
C9_TimeoutIsRecoverableError ==
  (last.op = "evaluated" /\ last.response = "timeout") =>
    /\ last.verdict = "error"
    /\ consecutiveErrors = last.errorsBefore + 1
    /\ StoredScore(This, getRouteKey(last.route)) = ErrorDecayScore(last.scoreBefore)
    /\ ~last.aborted

(***************************************************************************)
(* C10                                                                     *)
(***************************************************************************)
\* C10: an evaluation whose quote call returned zero routes does not end with the
\* not-profitable verdict: the route does not get the non-profitable decay and
\* consecutiveErrors is not reset
C10_NoRouteIsNotAVerdict ==
  (last.op = "evaluated" /\ last.response = "no_routes") =>
    /\ last.verdict # "null"
    /\ StoredScore(This, getRouteKey(last.route)) # DecayScore(last.scoreBefore)
    /\ (last.errorsBefore > 0 => consecutiveErrors # 0)

(***************************************************************************)
(* The two evaluators on their own: the classification of a two-hop cycle  *)
(* whose hops both quoted, by its final amount                             *)
(***************************************************************************)
StartAmount == tradeSize * Pow10(Decimals)
ThresholdAmount == StartAmount + (MinProfitBp * StartAmount) \div 10000

EvalAmounts ==
  {StartAmount - 1, StartAmount, StartAmount + 1}
    \cup {ThresholdAmount + d : d \in (0 - MaxSpread)..MaxSpread}

Evaluators == {"ContinuousScanner", "TriangularScanner"}

EvaluatorVerdict(evaluator, finalAmount) ==
  IF evaluator = "ContinuousScanner"
  THEN Verdict(ProfitableEntry.route, finalAmount)
  ELSE TriangularVerdictOf(tradeSize, MinProfitBp, finalAmount)

\* one evaluation of the cycle SOL -> USDC -> SOL that ends with finalAmount
Classify(evaluator, finalAmount) ==
  LET v == EvaluatorVerdict(evaluator, finalAmount)
  IN Becomes([This EXCEPT !.last =
       [op |-> "classified", regenerated |-> FALSE, evaluator |-> evaluator,
        finalAmount |-> finalAmount, verdict |-> v.kind,
        profit |-> IF v.kind = "opportunity" THEN v.profit ELSE 0]])

NextEvaluate ==
  \E evaluator \in Evaluators, finalAmount \in EvalAmounts :
    Classify(evaluator, finalAmount)

SpecEvaluate == Init /\ [][NextEvaluate]_vars

(***************************************************************************)
(* C11                                                                     *)
(***************************************************************************)
\* C11: a cycle whose hops all quoted is an Opportunity if and only if its profit
\* (final amount minus initial amount) less the gas estimate of its two hops is
\* at least the threshold share of the initial amount; otherwise the verdict is
\* null
C11_ProfitableIffNetMeetsThreshold ==
  last.op = "classified" =>
    /\ last.verdict \in {"opportunity", "null"}
    /\ last.verdict = "opportunity" <=>
         (last.finalAmount - StartAmount - 2 * GasPerHop) * 10000
           >= MinProfitBp * StartAmount

\* the same for the evaluator of ContinuousScanner alone
C11_ContinuousScannerOnly ==
  (last.op = "classified" /\ last.evaluator = "ContinuousScanner") =>
    /\ last.verdict = "opportunity" <=>
         (last.finalAmount - StartAmount - 2 * GasPerHop) * 10000
           >= MinProfitBp * StartAmount
    /\ last.verdict = "opportunity" =>
         last.profit = last.finalAmount - StartAmount - 2 * GasPerHop


(***************************************************************************)
(* The ledger on its own: trades handed to executeTrade and executeArbitrage*)
(***************************************************************************)
TradeRoutes == {<<SOL, USDC, SOL>>, <<USDC, SOL, USDC>>, <<USDC, TokenNames[1], USDC>>}
\* trade sizes, in tokens
TradeSizes == {1, 10}
\* how old an opportunity is when it is executed, in ms
Ages == {0, routeTimeout, routeTimeout + 1}

\* the Opportunity checkRoute returns for a cycle that turns size tokens into
\* size * 1.05 tokens, found age ms before t
TradeOpportunity(route, size, age, t) ==
  LET startAmount == Tokens(size)
      endAmount == startAmount + startAmount \div 20
      middleAmount == IF route[1] = SOL THEN startAmount * 10 ELSE startAmount \div 10
  IN [route |-> route, startAmount |-> startAmount, endAmount |-> endAmount,
      profit |-> NetProfitOf(size, route, endAmount), timestamp |-> t - age,
      steps |-> <<[inputMint |-> route[1], outputMint |-> route[2],
                   outputAmount |-> middleAmount],
                  [inputMint |-> route[2], outputMint |-> route[3],
                   outputAmount |-> endAmount]>>]

TradeOpportunities(t) ==
  {TradeOpportunity(route, size, age, t) :
     route \in TradeRoutes, size \in TradeSizes, age \in Ages}

InitialLedgers ==
  {NewPaperTrading("paper-trading.ts", config, initialBalance) :
     config \in PaperTradingConfigs, initialBalance \in InitialBalances}
  \cup {NewPaperTrading("part_003", config, initialBalance) :
     config \in CheckedPaperTradingConfigs, initialBalance \in InitialBalances}

TradeNote(op, opportunity, result) ==
  [op |-> op, regenerated |-> FALSE, opportunity |-> opportunity,
   age |-> now - opportunity.timestamp, result |-> result,
   paperBefore |-> paper, exchangeCallsBefore |-> exchangeCalls]

\* a direct call of paperTradingInstance.executeTrade
ExecuteTrade ==
  /\ Len(paper.tradeHistory) < MaxTrades
  /\ \E opportunity \in TradeOpportunities(now) :
       \E o \in executeTrade(paper, opportunity) :
         /\ paper' = o.paper
         /\ last' = TradeNote("executeTrade", opportunity, o.result)
  /\ UNCHANGED <<scannerVars, exchangeCalls, rateLimiter>>

\* a call of executeArbitrage
ExecuteArbitrage ==
  /\ Len(paper.tradeHistory) < MaxTrades
  /\ exchangeCalls < MaxTrades
  /\ \E opportunity \in TradeOpportunities(now) :
       \E o \in executeArbitrage(paper, exchangeCalls, now, opportunity) :
         /\ paper' = o.paper
         /\ exchangeCalls' = o.exchangeCalls
         /\ last' = TradeNote("executeArbitrage", opportunity, o.result)
  /\ UNCHANGED <<scannerVars, rateLimiter>>

\* one scanner, never started, and any of the ledgers
InitArbitrage ==
  /\ ScannerConstructed
  /\ blacklistedTokens = {}
  /\ jupiterApi = "setupJupiterAPI"
  /\ ~cacheFile.exists
  /\ paper \in InitialLedgers
  /\ exchangeCalls = 0
  /\ rateLimiter = setupJupiterAPI("jupiter-api.ts", 1)

InitLedger == InitArbitrage /\ paper.config.enabled

\* the ledger called directly
SpecLedger == InitLedger /\ [][ExecuteTrade]_vars

\* the ledger and the exchange behind executeArbitrage
SpecArbitrage == InitArbitrage /\ [][ExecuteArbitrage]_vars

\* a trade whose input amount exceeds the ledger's balance of the source asset
Overdrawn ==
  /\ last.op = "executeTrade"
  /\ last.opportunity.startAmount >
       getBalance(last.paperBefore, last.opportunity.route[1])

\* C12: a paper trade whose input amount is greater than the ledger's balance of
\* the source asset is reported failed with reason insufficient_balance and the
\* balances are left as they were (fails: executeTrade of paper-trading.ts has
\* no balance check)
C12_OverdrawnTradeRejected ==
  Overdrawn =>
    /\ ~last.result.success
    /\ last.result.reason = "insufficient_balance"
    /\ paper.balances = last.paperBefore.balances

\* the same statement for the PaperTrading of part_003 alone, which holds
C12_CheckedLedgerRejects ==
  (Overdrawn /\ paper.impl = "part_003") => C12_OverdrawnTradeRejected

C12_CheckedLedgerWitness ==
  Overdrawn /\ paper.impl = "part_003"


\* C13: in every reachable state every balance of the ledger is non-negative
\* (fails: a successful trade of paper-trading.ts debits the start balance
\* without looking at it)
C13_BalancesNonNegative ==
  \A m \in DOMAIN paper.balances : paper.balances[m] >= 0

\* the same for the PaperTrading of part_003, whose gas debit is unchecked: fails too
C13_CheckedLedgerNonNegative ==
  paper.impl = "part_003" => C13_BalancesNonNegative


\* an Opportunity older than the staleness bound handed to the ledger itself
StaleTrade == last.op = "executeTrade" /\ last.age > routeTimeout

\* C14: an Opportunity older than the staleness bound that is passed to the
\* ledger's executeTrade is rejected with reason expired, whatever the balances,
\* and no balance changes (fails: neither executeTrade reads the timestamp)
C14_StaleTradeRejected ==
  StaleTrade =>
    /\ ~last.result.success
    /\ last.result.reason = "expired"
    /\ paper.balances = last.paperBefore.balances

\* what the ledgers do instead: no call of executeTrade ever answers expired
C14_LedgerNeverAnswersExpired ==
  last.op = "executeTrade" => last.result.reason # "expired"


\* executeArbitrage has consumed an Opportunity older than the route timeout
ExpiredArbitrage == last.op = "executeArbitrage" /\ last.age > routeTimeout

\* C15: when executeArbitrage consumes an Opportunity whose age exceeds the route
\* timeout it returns a failed outcome with reason expired and calls neither the
\* ledger nor the exchange: balances, trade history and the exchange-call count
\* are what they were
C15_ExpiredNotExecuted ==
  ExpiredArbitrage =>
    /\ ~last.result.success
    /\ last.result.reason = "expired"
    /\ paper = last.paperBefore
    /\ exchangeCalls = last.exchangeCallsBefore

\* an expired Opportunity was refused after an earlier one had been traded
C15_Witness ==
  /\ ExpiredArbitrage
  /\ paper.config.enabled
  /\ Len(paper.tradeHistory) > 0
  /\ last.opportunity.startAmount <= getBalance(paper, last.opportunity.route[1])

\* the same in real mode, after an earlier exchange call
C15_WitnessExchange ==
  ExpiredArbitrage /\ ~paper.config.enabled /\ exchangeCalls > 0


(***************************************************************************)
(* The registry snapshot across a restart of the process                   *)
(***************************************************************************)
\* the classification of an asset: the blacklist is looked at first
\* (generateTriangularRoutes, lines 2049-2066)
Classification(s, mint) ==
  IF IsBlacklisted(s, mint) THEN "Blacklisted"
  ELSE IF IsVerified(s, mint) THEN "Verified"
  ELSE "Unverified"

\* the classification tradable-tokens.json records for an asset it names
SnapshotClassification(file, mint) ==
  IF mint \in file.blacklistedTokens THEN "Blacklisted" ELSE "Verified"

SnapshotAssets(file) == file.tradableTokens \cup file.blacklistedTokens

\* new ContinuousScanner(...) in a new process: every field as the constructor
\* leaves it; the file, the clock and the provider stay
NewContinuousScanner(s) ==
  [s EXCEPT !.tokenMap = <<>>, !.knownGoodTokens = {},
            !.blacklistedTokens = CHOOSE b \in ConfigBlacklists : TRUE,
            !.opportunities = <<>>, !.routeQueue = <<>>, !.isScanning = FALSE,
            !.scanInterval = FALSE, !.currentlyActiveRequests = 0,
            !.routeScoreMap = <<>>, !.consecutiveErrors = 0,
            !.backoffDelay = initialBackoffDelay, !.tokenScanPromise = 0,
            !.fetchState = <<>>, !.startWaiters = <<>>, !.timers = <<>>,
            !.intervals = 0, !.inflight = <<>>, !.starts = 0]

\* the process ends and startArbitrageBot runs again: constructor and initialize
ProcessStarts ==
  /\ cacheFile.exists
  /\ \E s \in initialize(NewContinuousScanner(This)) :
       Becomes([s EXCEPT !.last = [op |-> "process_start", regenerated |-> TRUE,
                                   snapshot |-> cacheFile]])

NextRoundTrip ==
  \/ NextWith(1, 1, MaxRestartTime, RestartTokenLists, RestartQuotes)
  \/ ProcessStarts

SpecRoundTrip == Init /\ [][NextRoundTrip]_vars

\* the step that wrote the snapshot
Saved == last.op = "fetch" /\ last.regenerated

\* the step that loaded a fresh snapshot into a new registry
Reloaded == last.op = "process_start" /\ ~last.snapshot.stale

\* C16: saving the registry snapshot and reloading it while it is fresh gives every
\* asset of the snapshot the classification it had before saving: the file records
\* the classification of the registry that wrote it, and the registry that loads
\* it classifies as the file records
C16_SnapshotRoundTrip ==
  /\ Saved =>
       \A a \in SnapshotAssets(cacheFile) :
         SnapshotClassification(cacheFile, a) = Classification(This, a)
  /\ Reloaded =>
       \A a \in SnapshotAssets(last.snapshot) :
         Classification(This, a) = SnapshotClassification(last.snapshot, a)

\* a snapshot written by this program, holding both classes, has been reloaded
C16_Witness ==
  /\ Reloaded
  /\ last.snapshot.blacklistedTokens # {}
  /\ last.snapshot.tradableTokens \ last.snapshot.blacklistedTokens # {}
  /\ last.snapshot.tradableTokens # OtherTokens


(***************************************************************************)
(* The worked example: 10 S -> 100 T -> 10.5 S                             *)
(***************************************************************************)
ExampleRoute == <<SOL, USDC, SOL>>

\* the gas a ledger charges for a trade
SimulatedGas(p, opportunity) ==
  IF p.impl = "paper-trading.ts"
  THEN IF p.config.gasFeesSimulation THEN Len(opportunity.steps) * SwapGas ELSE 0
  ELSE p.config.gasFee * Len(opportunity.steps)

\* does a ledger cut the output of a trade for slippage
HasSlippage(p) ==
  IF p.impl = "paper-trading.ts"
  THEN p.config.slippageAdjustment > 0
  ELSE p.config.slippageVariation > 0

\* a ledger holding 10 S has traded the Opportunity of the example with success
ExampleTrade ==
  /\ last.op = "executeTrade"
  /\ last.opportunity.route = ExampleRoute
  /\ last.opportunity.startAmount = Tokens(10)
  /\ last.opportunity.steps[1].outputAmount = Tokens(100)
  /\ last.opportunity.endAmount = Tokens(10) + Tokens(1) \div 2
  /\ getBalance(last.paperBefore, SOL) = Tokens(10)
  /\ last.result.success

\* the verdict of the evaluator on the example, against a threshold of 0.05%
ExampleVerdict == VerdictOf(10, 5, ExampleRoute, last.opportunity.endAmount)

\* C17 as stated: the evaluator reports a net profit of 0.4999 S, finds the cycle
\* profitable against 0.05%, and the successful paper trade leaves the balance of
\* S at 10.4999 minus the simulated gas
C17_ExampleAsStated ==
  ExampleTrade =>
    /\ ExampleVerdict.kind = "opportunity"
    /\ ExampleVerdict.profit = Tokens(1) \div 2 - 10
    /\ getBalance(paper, SOL) =
         Tokens(10) + Tokens(1) \div 2 - 10 - SimulatedGas(last.paperBefore, last.opportunity)

\* C17 amended: the gas estimate of the evaluator is 0.00001 S per hop, so it
\* reports a net profit of 0.49998 S and finds the cycle profitable against 0.05%;
\* the ledger credits the gross 10.5 S, so a successful paper trade leaves the
\* balance of S at 10.5 minus the simulated gas when no slippage is configured,
\* and otherwise below that by the slippage
C17_ExampleAsComputed ==
  ExampleTrade =>
    /\ ExampleVerdict.kind = "opportunity"
    /\ ExampleVerdict.profit = Tokens(1) \div 2 - 2
    /\ last.opportunity.profit = ExampleVerdict.profit
    /\ getBalance(paper, SOL) <=
         Tokens(10) + Tokens(1) \div 2 - SimulatedGas(last.paperBefore, last.opportunity)
    /\ ~HasSlippage(paper) =>
         getBalance(paper, SOL) =
           Tokens(10) + Tokens(1) \div 2 - SimulatedGas(last.paperBefore, last.opportunity)

\* the example on the ledger of paper-trading.ts, gas simulated, no slippage:
\* S ends at 10.4999
C17_Witness ==
  /\ ExampleTrade
  /\ paper.impl = "paper-trading.ts"
  /\ paper.config.gasFeesSimulation
  /\ ~HasSlippage(paper)
  /\ getBalance(paper, SOL) = Tokens(10) + Tokens(1) \div 2 - 10


(***************************************************************************)
(* Blacklisting                                                            *)
(***************************************************************************)
\* the registry: the two sets and the per-asset flags
Registry(s) ==
  [blacklistedTokens |-> s.blacklistedTokens, knownGoodTokens |-> s.knownGoodTokens,
   tokenMap |-> s.tokenMap]

\* the "token not tradable" errors an evaluation may end with
NotTradableErrors ==
  {[kind |-> "error", class |-> "not_tradable", asset |-> a] : a \in Mints \cup {None}}

\* C18: blacklisting is idempotent: after any evaluation, the catch block run twice
\* for the same "not tradable" error of the same route leaves the blacklist, the
\* known-good set and the per-asset flags as the catch block run once
C18_BlacklistingIdempotent ==
  last.op = "evaluated" =>
    \A error \in NotTradableErrors :
      LET entry == [route |-> last.route]
          once == OnError(This, entry, error).state
          twice == OnError(once, entry, error).state
      IN Registry(twice) = Registry(once)

\* the catch block has blacklisted the asset the error names
C18_Witness ==
  /\ last.op = "evaluated"
  /\ last.class = "not_tradable"
  /\ last.asset # None
  /\ last.asset \in blacklistedTokens


\* C19: once an asset classifies as Blacklisted, no step of the scheduler or of the
\* evaluator makes it classify as anything else for the rest of the run, and the
\* marking a successful hop applies to it (lines 2586-2603) leaves it Blacklisted
C19_StaysBlacklisted ==
  [][\A a \in Mints :
       Classification(This, a) = "Blacklisted"
         => /\ Classification(This, a)' = "Blacklisted"
            /\ Classification(MarkVerified(This, a).state, a) = "Blacklisted"]_vars

\* an evaluation has run to a profitable verdict while an asset was blacklisted
C19_Witness ==
  /\ last.op = "evaluated"
  /\ last.verdict = "opportunity"
  /\ \E a \in Mints : Classification(This, a) = "Blacklisted"


(***************************************************************************)
(* Successful hops                                                         *)
(***************************************************************************)
\* the evaluation that was suspended last
Suspended == inflight[Len(inflight)]

\* C20: after every hop that quotes successfully during an evaluation, the input
\* asset and the output asset of the hop are in the known-good set, also when a
\* later hop of the same cycle has failed since
C20_QuotedHopsAreKnownGood ==
  /\ last.op = "hop" =>
       \A j \in 1..(Suspended.i - 1) : Suspended.entry.route[j] \in knownGoodTokens
  /\ (last.op = "evaluated" /\ last.hop > 0) =>
       \A j \in 1..(IF last.response = "routes" THEN last.hop + 1 ELSE last.hop) :
         last.route[j] \in knownGoodTokens

\* the first hop of a cycle has quoted and the second has failed
C20_Witness ==
  /\ last.op = "evaluated"
  /\ last.hop = 2
  /\ last.response # "routes"
  /\ last.route[1] \in knownGoodTokens
  /\ last.route[2] \in knownGoodTokens


(***************************************************************************)
(* The registry refresh: fetchJupiterTokens                                *)
(***************************************************************************)
\* runs of the process, one after the other, with every answer of the download
NextRefresh ==
  \/ NextWith(1, 1, MaxRestartTime, TokenListResponses, RestartQuotes)
  \/ ProcessStarts

SpecRefresh == Init /\ [][NextRefresh]_vars

\* the download has answered with a token list
Refreshed == last.op = "fetch" /\ last.response[1] = "ok"

\* the assets of the downloaded list
Canonical == Range(last.response[2])

\* the registry before the refresh
BeforeRefresh ==
  [blacklistedTokens |-> last.blacklistedBefore,
   knownGoodTokens |-> last.knownGoodBefore, tokenMap |-> last.tokenMapBefore]

\* C21: after a refresh that fetched the canonical list, every asset of the list
\* classifies as Verified, whatever it was before, also when it was Blacklisted
\* (fails: the blacklist is never cleared, and the refresh stops at the first
\* asset of the list)
C21_CanonicalAssetsVerified ==
  Refreshed => \A a \in Canonical : Classification(This, a) = "Verified"

\* what the refresh does for the first asset of the list: it is in the known-good set
C21_FirstAssetKnownGood ==
  Refreshed => \A a \in Canonical : a \in knownGoodTokens


\* the assets the registry knew before the refresh
KnownBefore == DOMAIN last.tokenMapBefore

\* the refresh has blacklisted every known asset that is absent from the list and
\* was not Verified
AbsentDemoted ==
  \A a \in KnownBefore :
    (a \notin Canonical /\ Classification(BeforeRefresh, a) # "Verified")
      => Classification(This, a) = "Blacklisted"

\* the refresh has blacklisted no asset that was Verified
VerifiedKept ==
  \A a \in Mints :
    Classification(BeforeRefresh, a) = "Verified" => a \notin blacklistedTokens

\* C22: after a refresh that fetched the canonical list, every known asset that is
\* absent from the list and was not Verified is Blacklisted, and no asset that was
\* Verified is blacklisted by the refresh (fails: with a list that is not empty
\* the refresh ends before its blacklisting loop)
C22_AbsentUnverifiedBlacklisted ==
  Refreshed => (AbsentDemoted /\ VerifiedKept)

\* what holds: with an empty list the loop runs, and no refresh blacklists a
\* Verified asset
C22_EmptyListDemotes ==
  Refreshed => (VerifiedKept /\ (Canonical = {} => AbsentDemoted))


\* the download has failed: response not OK, network error or parse error
RefreshFailed == last.op = "fetch" /\ last.response[1] = "failed"

\* C23: a refresh that fails leaves the known-good set, the blacklist, the token
\* map and the route queue as they were before it
C23_FailedRefreshChangesNothing ==
  RefreshFailed =>
    /\ knownGoodTokens = last.knownGoodBefore
    /\ blacklistedTokens = last.blacklistedBefore
    /\ tokenMap = last.tokenMapBefore
    /\ routeQueue = last.queueBefore

\* a refresh has failed in a registry that held classifications and cycles
C23_Witness ==
  /\ RefreshFailed
  /\ knownGoodTokens # {}
  /\ blacklistedTokens # {}
  /\ routeQueue # <<>>

(***************************************************************************)
(* Stop                                                                    *)
(***************************************************************************)
\* the step popped a cycle from the queue and began its evaluation
EvaluationStarted ==
  \/ last.op = "pop"
  \/ last.op = "evaluated" /\ last.hop = 0

\* the step ended an evaluation that had been waiting for a quote
InFlightCompleted == last.op = "evaluated" /\ last.hop > 0

\* the score the verdict of the step gives the cycle
UpdatedScore ==
  IF last.verdict = "opportunity" THEN BoostScore(last.scoreBefore)
  ELSE IF last.verdict = "null" THEN DecayScore(last.scoreBefore)
  ELSE ErrorDecayScore(last.scoreBefore)

ScoreUpdated == StoredScore(This, getRouteKey(last.route)) = UpdatedScore

\* the cycle of the step is the entry appended to the queue, with the stored score
\* as its priority, unless it holds a blacklisted asset
Reenqueued ==
  ~ContainsBlacklisted(This, last.route) =>
    /\ routeQueue # <<>>
    /\ routeQueue[Len(routeQueue)].route = last.route
    /\ routeQueue[Len(routeQueue)].priority =
         StoredScore(This, getRouteKey(last.route))

\* C24: after stopContinuousScanning no queue pop and no evaluation starts until a
\* later start, and an evaluation in flight at the stop still runs to its end and
\* applies its priority update and its re-enqueue
C24_StopLetsInFlightFinish ==
  /\ EvaluationStarted => isScanning
  /\ (InFlightCompleted /\ ~isScanning) => (ScoreUpdated /\ Reenqueued)

\* the same, for the evaluations whose catch block did not throw
C24_StopUnlessCatchThrows ==
  /\ EvaluationStarted => isScanning
  /\ (InFlightCompleted /\ ~isScanning /\ ~last.aborted) =>
       (ScoreUpdated /\ Reenqueued)

\* an evaluation in flight at the stop has ended with a verdict after it
C24_StoppedCompletion ==
  InFlightCompleted /\ ~isScanning /\ last.verdict = "null"

\* a timer fired after the stop, with cycles in the queue
C24_StoppedTimer == last.op = "halt" /\ ~isScanning /\ routeQueue # <<>>

(***************************************************************************)
(* Failed paper trades                                                     *)
(***************************************************************************)
\* a trade that is neither expired nor overdrawn, and that the ledger reports failed
DrawnFailure ==
  /\ last.op = "executeTrade"
  /\ ~StaleTrade
  /\ ~Overdrawn
  /\ ~last.result.success

\* the balances before the trade, less the simulated gas when it is configured
BalancesLessGas ==
  IF last.paperBefore.config.gasFeesSimulation
  THEN Credit(last.paperBefore.balances, SOL,
              0 - SimulatedGas(last.paperBefore, last.opportunity))
  ELSE last.paperBefore.balances

\* C25: a paper trade that passes the expiry and balance checks and whose drawn
\* outcome is failure carries a failure reason of the fixed set, and leaves every
\* balance as it was, except that the simulated gas is deducted from the fee
\* asset when gas simulation is configured
C25_FailedTradePaysGas ==
  DrawnFailure =>
    /\ last.result.reason \in failureReasons
    /\ paper.balances = BalancesLessGas

\* what paper-trading.ts does: a failed trade changes no balance at all
C25_FailedTradeChangesNoBalance ==
  DrawnFailure =>
    /\ last.result.reason \in failureReasons
    /\ paper.balances = last.paperBefore.balances

C25_FailedWithGasConfigured ==
  DrawnFailure /\ last.paperBefore.config.gasFeesSimulation

(***************************************************************************)
(* Cycle generation: 2, 3 and 4 hops                                       *)
(***************************************************************************)
\* array.slice(0, n)
Take(s, n) == SubSeq(s, 1, Min(Len(s), n))

\* the arrays without a repeated element over S: Array.from(aSet), Object.keys(o)
Arrangements(S) ==
  {q \in UNION {[1..n -> S] : n \in 0..Cardinality(S)} :
     \A i, j \in DOMAIN q : q[i] = q[j] => i = j}

\* the hard-coded candidates of the 4-hop search: USDC, USDT, BONK, WIF
majorTokenAddresses == <<USDC, "USDT", "BONK", "WIF">>

\* findArbitragePath: fullPath = [sourceToken, ...intermediatePath, sourceToken]
fullPath(sourceToken, intermediatePath) ==
  <<sourceToken>> \o intermediatePath \o <<sourceToken>>

\* findComplexArbitrageOpportunities: the paths it hands to findArbitragePath, as a
\* function of the fields it reads (sourceToken, filteredTokens, excludedTokens,
\* includedTokens) and of the configuration (tokenLimit: maxTokensToScan || 40)
findComplexArbitrageOpportunities(sourceToken, filteredTokens, excludedTokens, includedTokens, tokenLimit, findFourHopRoutes) ==
  LET intermediateTokens == SelectSeq(filteredTokens, LAMBDA token : token # sourceToken)
      candidateTokens == Take(intermediateTokens, tokenLimit)
      skipped(token) == token \in excludedTokens /\ token \notin Range(includedTokens)
      hop2 == {fullPath(sourceToken, <<token1>>) :
                 token1 \in {t \in Range(candidateTokens) : ~skipped(t)}}
      hop3Candidates == Take(candidateTokens, 20)
      hop3 == {fullPath(sourceToken, <<pair[1], pair[2]>>) :
                 pair \in {p \in Range(hop3Candidates) \X Range(hop3Candidates) :
                             p[1] # p[2] /\ ~skipped(p[1]) /\ ~skipped(p[2])}}
      additionalTokens ==
        Take(SelectSeq(includedTokens,
                       LAMBDA token : token \notin Range(majorTokenAddresses)), 5)
      hop4Candidates == Range(majorTokenAddresses \o additionalTokens)
      hop4 == {fullPath(sourceToken, <<triple[1], triple[2], triple[3]>>) :
                 triple \in {t \in hop4Candidates \X hop4Candidates \X hop4Candidates :
                               t[1] # t[2] /\ t[1] # t[3] /\ t[2] # t[3]}}
  IN hop2 \cup hop3 \cup (IF findFourHopRoutes THEN hop4 ELSE {})

\* generateArbitrageRoutes(tokenMap) of lines 625-652, for the keys of tokenMap in
\* their order and the configured basePairs, maxTokensToScan and tokenBlacklist
generateArbitrageRoutes(tokenMapKeys, basePairs, maxTokensToScan, tokenBlacklist) ==
  LET startToken == SOL
      secondaryTokens == Take(tokenMapKeys, maxTokensToScan)
  IN {<<startToken, pair[1], pair[2], startToken>> :
        pair \in {p \in Range(basePairs) \X Range(secondaryTokens) :
                    /\ p[1] # startToken
                    /\ p[2] # startToken /\ p[2] # p[1]
                    /\ p[2] \notin tokenBlacklist}}

\* the arrays of tokens the generators are given: filteredTokens, the keys of tokenMap
TokenArrays == Arrangements({SOL, USDC, TokenNames[1]})
\* config.tokenFilter.includedTokens
IncludedTokens == {<<>>, <<SOL>>, <<TokenNames[1], SOL>>}
\* config.tokens.basePairs
BasePairs == {<<SOL, USDC>>, <<SOL, USDC, TokenNames[1]>>, <<USDC, USDC>>}
\* config.tokens.maxTokensToScan, config.tokenFilter.maxTokensToScan
TokenLimits == {2, 50}
\* config.arbitrage.sourceToken as the scanner holds it; None: the field
\* sourceToken, which the class declares and never assigns
SourceTokens == {None, SOL, USDC}

PathsNote(sourceToken, routes) ==
  [op |-> "paths", regenerated |-> FALSE, sourceToken |-> sourceToken, routes |-> routes]

\* a call of findComplexArbitrageOpportunities
FindComplexArbitrageOpportunities ==
  /\ \E sourceToken \in SourceTokens, filteredTokens \in TokenArrays,
        excludedTokens \in SUBSET {USDC}, includedTokens \in IncludedTokens,
        maxTokensToScan \in TokenLimits, findFourHopRoutes \in BOOLEAN :
       last' = PathsNote(sourceToken,
                 findComplexArbitrageOpportunities(sourceToken, filteredTokens,
                   excludedTokens, includedTokens, maxTokensToScan, findFourHopRoutes))
  /\ UNCHANGED <<scannerVars, paper, exchangeCalls, rateLimiter>>

\* a call of generateArbitrageRoutes
GenerateArbitrageRoutes ==
  /\ \E tokenMapKeys \in TokenArrays, basePairs \in BasePairs,
        maxTokensToScan \in TokenLimits, tokenBlacklist \in ConfigBlacklists :
       last' = PathsNote(SOL,
                 generateArbitrageRoutes(tokenMapKeys, basePairs, maxTokensToScan,
                                         tokenBlacklist))
  /\ UNCHANGED <<scannerVars, paper, exchangeCalls, rateLimiter>>

\* the three generators: the scanner's queue (initialize), the search of
\* findArbitrageOpportunities and the complex search
NextRoutes ==
  \/ Initialize(1)
  \/ GenerateArbitrageRoutes
  \/ FindComplexArbitrageOpportunities

\* a scanner over the API object of setupJupiterAPI
InitRoutes == Init /\ jupiterApi = "setupJupiterAPI"

SpecRoutes == InitRoutes /\ [][NextRoutes]_vars

\* route starts and ends at source, holds it nowhere else, and repeats no
\* intermediate asset
IsCycle(route, source) ==
  /\ Len(route) >= 3
  /\ route[1] = source
  /\ route[Len(route)] = source
  /\ \A i \in 2..(Len(route) - 1) : route[i] # source
  /\ \A i, j \in 2..(Len(route) - 1) : route[i] = route[j] => i = j

Hops(route) == Len(route) - 1

C26_ShortCyclesAreSimple ==
  /\ \A i \in DOMAIN routeQueue : IsCycle(routeQueue[i].route, SOL)
  /\ last.op = "paths" =>
       \A route \in last.routes :
         Hops(route) < 4 => IsCycle(route, last.sourceToken)

C26_AllLengthsGenerated ==
  /\ last.op = "paths"
  /\ routeQueue # <<>>
  /\ \A n \in 2..4 : \E route \in last.routes : Hops(route) = n

(***************************************************************************)
(* The other public methods of the ledgers                                 *)
(***************************************************************************)
\* getAllBalances(): { ...this.balances }, a new object (alias: the object
\* returned is the ledger's own balance map)
getAllBalances(p) == [alias |-> FALSE, balances |-> p.balances]

\* setBalance(tokenMint, amount) of part_003: this.balances[tokenMint] = amount
setBalance(p, tokenMint, amount) ==
  [p EXCEPT !.balances =
     [m \in DOMAIN p.balances \cup {tokenMint} |->
        IF m = tokenMint THEN amount ELSE p.balances[m]]]

\* the public methods of a ledger that only read it
ReadingMethods(p) ==
  IF p.impl = "paper-trading.ts"
  THEN {"getTradeHistory", "getBalanceHistory", "getPerformanceMetrics",
        "generateReport", "saveReport"}
  ELSE {"saveReport"}

\* the amount a caller writes, in ledger units
WrittenAmounts == {Tokens(1)}

LedgerNote(op) == [op |-> op, regenerated |-> FALSE, paperBefore |-> paper]

\* paperTradingInstance.getBalance(tokenMint)
GetBalance ==
  /\ \E tokenMint \in Mints :
       last' = [op |-> "getBalance", regenerated |-> FALSE, paperBefore |-> paper,
                returned |-> getBalance(paper, tokenMint)]
  /\ UNCHANGED <<scannerVars, paper, exchangeCalls, rateLimiter>>

\* getAllBalances() of paper-trading.ts, and the caller writes into the object
\* it was given
GetAllBalances ==
  /\ paper.impl = "paper-trading.ts"
  /\ \E tokenMint \in {SOL, USDC}, amount \in WrittenAmounts :
       LET snapshot == getAllBalances(paper)
       IN paper' = IF snapshot.alias THEN setBalance(paper, tokenMint, amount)
                   ELSE paper
  /\ last' = LedgerNote("getAllBalances")
  /\ UNCHANGED <<scannerVars, exchangeCalls, rateLimiter>>

\* setBalance(tokenMint, amount) of part_003
SetBalance ==
  /\ paper.impl = "part_003"
  /\ \E tokenMint \in {SOL, USDC}, amount \in WrittenAmounts :
       paper' = setBalance(paper, tokenMint, amount)
  /\ last' = LedgerNote("setBalance")
  /\ UNCHANGED <<scannerVars, exchangeCalls, rateLimiter>>

\* the history getters, the metrics and the reports
ReadLedger ==
  /\ \E method \in ReadingMethods(paper) : last' = LedgerNote(method)
  /\ UNCHANGED <<scannerVars, paper, exchangeCalls, rateLimiter>>

\* every public method of the ledgers, called in any order
NextLedgerCalls ==
  \/ ExecuteTrade
  \/ GetBalance
  \/ GetAllBalances
  \/ SetBalance
  \/ ReadLedger

\* the two ledgers with the configured balances, gas simulation and no slippage
InitLedgerCalls ==
  /\ InitLedger
  /\ paper.balances = DefaultInitialBalance
  /\ paper.config.gasFeesSimulation
  /\ ~HasSlippage(paper)

SpecLedgerCalls == InitLedgerCalls /\ [][NextLedgerCalls]_vars

\* the step was a call of a public method of the ledger other than executeTrade
OtherLedgerCall ==
  last.op \in {"getBalance", "getAllBalances", "setBalance", "getTradeHistory",
               "getBalanceHistory", "getPerformanceMetrics", "generateReport",
               "saveReport"}

\* C27: the balances of the ledger change only through executeTrade: every other
\* public method leaves the balance map as it was, and so does a write into a
\* balance snapshot the ledger returned
C27_OnlyExecuteTradeChangesBalances ==
  OtherLedgerCall => paper.balances = last.paperBefore.balances

\* the same for the PaperTrading of paper-trading.ts, which has no setBalance
C27_PaperTradingFrame ==
  (OtherLedgerCall /\ paper.impl = "paper-trading.ts") =>
    paper.balances = last.paperBefore.balances

C27_SnapshotWritten ==
  last.op = "getAllBalances" /\ paper.tradeHistory # <<>>

(***************************************************************************)
(* The trade history                                                       *)
(***************************************************************************)
\* the history after the step is the history before it and one record more
OneRecordAppended ==
  LET before == last.paperBefore.tradeHistory
  IN /\ Len(paper.tradeHistory) = Len(before) + 1
     /\ SubSeq(paper.tradeHistory, 1, Len(before)) = before

\* the record appended last tells what the call answered
LastRecordTellsResult ==
  /\ paper.tradeHistory[Len(paper.tradeHistory)].successful = last.result.success
  /\ ~last.result.success => last.result.reason # None

\* C28: every call of executeTrade, the rejected and the failed ones included,
\* appends exactly one record to the trade history, with a success flag and, for
\* a failure, a reason, and no call of the ledger changes or removes an earlier
\* record
C28_EveryTradeRecorded ==
  /\ last.op = "executeTrade" => (OneRecordAppended /\ LastRecordTellsResult)
  /\ OtherLedgerCall => paper.tradeHistory = last.paperBefore.tradeHistory

\* the same for the PaperTrading of paper-trading.ts, and for the trades of
\* part_003 that pass its balance check
C28_AcceptedTradesRecorded ==
  /\ (last.op = "executeTrade"
        /\ (paper.impl = "paper-trading.ts" \/ last.result.success))
       => (OneRecordAppended /\ LastRecordTellsResult)
  /\ OtherLedgerCall => paper.tradeHistory = last.paperBefore.tradeHistory

C28_FailedTradeRecorded ==
  /\ last.op = "executeTrade"
  /\ ~last.result.success
  /\ last.paperBefore.tradeHistory # <<>>
  /\ OneRecordAppended

(***************************************************************************)
(* Re-enqueue                                                              *)
(***************************************************************************)
\* the scheduler has finished the processing of a popped cycle
Processed == last.op = "evaluated"

\* how often the cycle of the step is in the queue
TimesQueued == Cardinality({i \in DOMAIN routeQueue : routeQueue[i].route = last.route})

\* the cycle of the step is in the queue once, as the entry appended last, with its
\* updated stored score as priority, or not at all when it holds a blacklisted asset
RequeuedOnce ==
  IF ContainsBlacklisted(This, last.route)
  THEN TimesQueued = 0
  ELSE TimesQueued = 1 /\ Reenqueued /\ ScoreUpdated

\* C29: after the scheduler has processed a popped cycle (profitable, not
\* profitable or error) the cycle is in the queue exactly once when it holds no
\* blacklisted asset and is not in the queue when it holds one, and the priority
\* it is re-enqueued with is its updated stored score
C29_ProcessedCycleRequeuedOnce == Processed => RequeuedOnce

\* the same for the cycles whose catch block did not throw
C29_RequeuedOnceUnlessCatchThrows == (Processed /\ ~last.aborted) => RequeuedOnce

\* without the count: a processed cycle that holds no blacklisted asset is the
\* entry appended last, with its updated score, unless the catch block threw
C29_RequeuedUnlessCatchThrows ==
  (Processed /\ ~last.aborted /\ ~ContainsBlacklisted(This, last.route)) =>
    (Reenqueued /\ ScoreUpdated)

\* a cycle was processed while a second initialize had put it into the queue
C29_RequeuedTwice == Processed /\ ~last.aborted /\ TimesQueued = 2

(***************************************************************************)
(* Known-good set and blacklist                                            *)
(***************************************************************************)
\* the assets that are in the known-good set and on the blacklist at once
InBothSets == knownGoodTokens \cap blacklistedTokens

\* C30: in every reachable state no asset is in the known-good (Verified) set and
\* in the blacklist at once, after any sequence of cache loads, refreshes,
\* evaluations and blacklistings
C30_KnownGoodAndBlacklistDisjoint == InBothSets = {}

(***************************************************************************)
(* Blacklisted cycles and the quote endpoint                               *)
(***************************************************************************)
\* the step popped a cycle and issued the first quote call of its evaluation
QuoteIssued == last.op = "pop"

WorkerLoops == Len(timers) + Len(inflight)

\* C32: for any interleaving of startContinuousScanning and stopContinuousScanning
\* calls on one scanner at most one worker loop is live: there is never more than
\* one pending or running continuation of processNextRoute
C32_AtMostOneWorkerLoop == WorkerLoops <= 1

\* the second half of the claim: a start while already scanning starts no loop
C32_StartWhileScanningRefused ==
  [][(isScanning /\ starts' = starts + 1) =>
       (last'.op = "start_refused" /\ UNCHANGED <<timers, inflight, routeQueue>>)]_vars

\* a scanner that was never stopped and started once has one loop at most
C32_OneLoopPerStart == starts <= 1 => WorkerLoops <= 1

\* two starts overlapped while the token verification was awaited
C32_OverlappingStarts == Len(startWaiters) = 2

(***************************************************************************)
(* One queue entry per cycle                                               *)
(***************************************************************************)
\* no cycle has two entries in the queue
QueueEntriesDistinct ==
  \A i, j \in DOMAIN routeQueue : routeQueue[i].route = routeQueue[j].route => i = j

\* no cycle that is being evaluated has an entry in the queue
InFlightNotQueued ==
  \A e \in DOMAIN inflight, i \in DOMAIN routeQueue :
    inflight[e].entry.route # routeQueue[i].route

\* C33: in every reachable state the route queue holds at most one entry per cycle
\* identity, and a cycle that is in flight is not in the queue as well, after any
\* sequence of pops, re-enqueues, regenerations, starts and stops
C33_OneEntryPerCycle == QueueEntriesDistinct /\ InFlightNotQueued

\* the same for a scanner that was initialized once
C33_OneEntryWhenInitializedOnce == Len(fetchState) <= 1 => C33_OneEntryPerCycle

(***************************************************************************)
(* Starvation                                                              *)
(***************************************************************************)
\* one scanner, one start, and a worker loop that is scheduled fairly: a timer
\* that is set fires, a quote call and a download are answered, a suspended start
\* goes on
NextFair == NextWith(1, 1, MaxRestartTime, RestartTokenLists, RestartQuotes)

\* a quote call returns to the evaluation that waits for it
QuoteStep ==
  \E e \in DOMAIN inflight, response \in RestartQuotes : QuoteReturns(e, response)

\* the event loop runs every callback that is due: a timer that was set fires,
\* a start that waits for the download resumes, a download completes, and a
\* quote call returns (weak fairness of QuoteStep with its enabling condition
\* written out: a quote can return exactly when an evaluation is in flight)
Fairness ==
  /\ WF_vars(\E t \in DOMAIN timers : TimerFires(t, MaxRestartTime))
  /\ WF_vars(\E w \in DOMAIN startWaiters : StartResumes(w))
  /\ WF_vars(\E id \in DOMAIN fetchState, response \in RestartTokenLists : FetchCompletes(id, response))
  /\ ([]<>(inflight = <<>>) \/ []<><<QuoteStep>>_vars)

SpecFair == Init /\ [][NextFair]_vars /\ Fairness

\* the cycles of the scanner
Cycles == {<<SOL, mint, SOL>> : mint \in Mints \ {SOL}}

\* the cycle waits in the queue of a scanning scanner and holds no blacklisted asset
Waiting(cycle) ==
  /\ isScanning
  /\ \E i \in DOMAIN routeQueue : routeQueue[i].route = cycle
  /\ ~ContainsBlacklisted(This, cycle)

\* the step popped the cycle
PoppedCycle(cycle) ==
  \/ last.op = "pop" /\ last.entry.route = cycle
  \/ last.op = "evaluated" /\ last.hop = 0 /\ last.route = cycle

\* the clock has reached the end of the run that is looked at
HorizonReached == now >= MaxRestartTime

\* C34: while scanning continues, every cycle that stays free of blacklisted
\* assets is eventually popped and evaluated again, whatever the verdicts of the
\* other cycles and whenever the periodic re-sort fires, under fair scheduling of
\* the worker loop (stated for the run up to the horizon)
C34_NoStarvation ==
  \A cycle \in Cycles :
    Waiting(cycle) ~>
      (PoppedCycle(cycle) \/ ~isScanning \/ ContainsBlacklisted(This, cycle)
         \/ HorizonReached)

\* the same for a scanner whose loop has a continuation pending or running
C34_NoStarvationWhileLoopLives ==
  \A cycle \in Cycles :
    (Waiting(cycle) /\ WorkerLoops > 0) ~>
      (PoppedCycle(cycle) \/ ~isScanning \/ ContainsBlacklisted(This, cycle)
         \/ HorizonReached \/ WorkerLoops = 0)

\* a cycle waits in the queue of a scanning scanner without any worker loop
C34_Stranded ==
  /\ \E cycle \in Cycles : Waiting(cycle)
  /\ WorkerLoops = 0
  /\ startWaiters = <<>>
  /\ ~HorizonReached

(***************************************************************************)
(* Concurrent callers of one Jupiter API wrapper                           *)
(***************************************************************************)
\* calls of the wrapper's methods, and steps of the clock
MaxCalls == 3
MaxTicks == 12
\* the requestsPerSecond a wrapper is made with
RequestRates == {1, 2}

\* a caller calls computeRoutes, getQuote or exchange, which awaits the limiter:
\* the limiter runs to its setTimeout or, without a wait, admits the request
ApiCall(method) ==
  /\ rateLimiter.calls < MaxCalls
  /\ LET l == [rateLimiter EXCEPT !.calls = @ + 1,
                                  !.overlapped = @ \/ rateLimiter.sleeping # <<>>]
     IN rateLimiter' = IF l.file = "jupiter-api.ts" THEN rateLimitRequest(l)
                       ELSE getRateLimit(l)
  /\ last' = [op |-> "api_call", regenerated |-> FALSE, method |-> method]
  /\ UNCHANGED <<scannerVars, paper, exchangeCalls>>

\* the timer of a suspended caller is due and fires: the caller leaves the limiter
LimiterWakes(i) ==
  /\ rateLimiter.sleeping[i] <= rateLimiter.clock
  /\ LET l == [rateLimiter EXCEPT !.sleeping = RemoveAt(@, i)]
     IN rateLimiter' = IF l.file = "jupiter-api.ts" THEN rateLimitRequestResume(l)
                       ELSE getRateLimitResume(l)
  /\ last' = Note("api_admitted")
  /\ UNCHANGED <<scannerVars, paper, exchangeCalls>>

\* time passes once every timer that is due has fired
ClockTicks ==
  /\ rateLimiter.clock < FirstClock + MaxTicks * ClockStep
  /\ \A i \in DOMAIN rateLimiter.sleeping : rateLimiter.sleeping[i] > rateLimiter.clock
  /\ rateLimiter' = [rateLimiter EXCEPT !.clock = @ + ClockStep]
  /\ last' = Note("tick")
  /\ UNCHANGED <<scannerVars, paper, exchangeCalls>>

NextRateLimit ==
  \/ \E method \in ApiMethods(rateLimiter.file) : ApiCall(method)
  \/ \E i \in DOMAIN rateLimiter.sleeping : LimiterWakes(i)
  \/ ClockTicks

\* a wrapper of either file, and no scanner step
InitRateLimit ==
  /\ ScannerConstructed
  /\ blacklistedTokens = {}
  /\ jupiterApi = "setupJupiterAPI"
  /\ ~cacheFile.exists
  /\ paper = NewPaperTrading("paper-trading.ts", DefaultPaperTradingConfig,
                             DefaultInitialBalance)
  /\ exchangeCalls = 0
  /\ rateLimiter \in {setupJupiterAPI(file, requestsPerSecond) :
                        file \in LimiterFiles, requestsPerSecond \in RequestRates}

SpecRateLimit == InitRateLimit /\ [][NextRateLimit]_vars

\* the requests admitted in the window of RateWindow milliseconds that starts
\* with the admission of request i
AdmittedInWindow(i) ==
  {j \in DOMAIN rateLimiter.admitted :
     /\ rateLimiter.admitted[j] >= rateLimiter.admitted[i]
     /\ rateLimiter.admitted[j] - rateLimiter.admitted[i] < RateWindow}

\* C35: for any interleaving of concurrent callers of computeRoutes, getQuote and
\* exchange on one wrapper, no more than requestsPerSecond requests are admitted
\* within any window of 1000 ms
C35_RateLimited ==
  \A i \in DOMAIN rateLimiter.admitted :
    Cardinality(AdmittedInWindow(i)) <= rateLimiter.requestsPerSecond

\* the same for callers that enter the limiter one at a time
C35_RateLimitedOneAtATime == ~rateLimiter.overlapped => C35_RateLimited

\* a caller waited in the limiter and was admitted, and no call overlapped another
C35_WaitedAlone ==
  /\ last.op = "api_admitted"
  /\ ~rateLimiter.overlapped
  /\ Len(rateLimiter.admitted) >= 2

(***************************************************************************)
(* What a successful paper trade writes                                    *)
(***************************************************************************)
\* the step was a call of executeTrade that succeeded
SuccessfulTrade == last.op = "executeTrade" /\ last.result.success

\* by how much the step changed the balance of an asset
BalanceChange(tokenMint) ==
  getBalance(paper, tokenMint) - getBalance(last.paperBefore, tokenMint)

\* the net profit of the record the step appended (profit of the TradeRecord of
\* paper-trading.ts, netProfit of the TradeHistory of part_003)
RecordedNetProfit == paper.tradeHistory[Len(paper.tradeHistory)].profit

\* C36: for every successful paper trade, the net profit written to the trade
\* record equals the change of the source asset's balance that the trade caused
\* (fails: paper-trading.ts subtracts the gas from the profit of a trade whose
\* source is not SOL although the gas was taken from SOL; part_003 writes the
\* evaluator's profit less gas, whatever was credited)
C36_RecordedProfitIsBalanceChange ==
  SuccessfulTrade => RecordedNetProfit = BalanceChange(last.opportunity.route[1])

\* the same for the trades of paper-trading.ts that start from SOL, the asset
\* the gas is taken from, or that simulate no gas
C36_HoldsWhenGasAssetIsSource ==
  (/\ SuccessfulTrade
   /\ paper.impl = "paper-trading.ts"
   /\ (last.opportunity.route[1] = SOL \/ ~paper.config.gasFeesSimulation)) =>
    RecordedNetProfit = BalanceChange(last.opportunity.route[1])

\* a successful trade of paper-trading.ts from SOL with simulated gas
C36_SolTradeWithGas ==
  /\ SuccessfulTrade
  /\ paper.impl = "paper-trading.ts"
  /\ last.opportunity.route[1] = SOL
  /\ paper.config.gasFeesSimulation

\* C37: a successful paper trade over a cycle changes only the balance of the
\* source asset and of the fee asset; the balance of every other asset, the
\* intermediate assets of the cycle among them, is the same after the trade
\* (fails: part_003 credits the output of every swap and debits only the start)
C37_OnlySourceAndFeeAssetChange ==
  SuccessfulTrade =>
    \A tokenMint \in Mints \ {last.opportunity.route[1], SOL} :
      BalanceChange(tokenMint) = 0

\* the same for the ledger of paper-trading.ts
C37_HoldsForPaperTrading ==
  paper.impl = "paper-trading.ts" => C37_OnlySourceAndFeeAssetChange

\* a successful trade of paper-trading.ts through an intermediate asset that is
\* neither its source nor SOL
C37_TradeThroughOtherAsset ==
  /\ SuccessfulTrade
  /\ paper.impl = "paper-trading.ts"
  /\ last.opportunity.route[2] \notin {last.opportunity.route[1], SOL}

(***************************************************************************)
(* Regeneration and the learned scores                                     *)
(***************************************************************************)
\* the priority regeneration gives a cycle whose stored scores are scores: the
\* stored score of its key, and the score 1.0 for a key that has none.  (A stored
\* score is a product of 1.0 with factors 1.5, 0.95 and 0.8; as a double it is
\* never 0 and never 1.0 again, so "|| 1.0" takes effect for a missing key only.)
LearnedPriority(scores, routeKey) ==
  IF routeKey \in DOMAIN scores THEN scores[routeKey] ELSE ScoreOne

\* C38: route regeneration preserves learned scores: after generateAllRoutes
\* the queue priority of each regenerated cycle equals the score stored for the
\* cycle before the regeneration (1.0 only for a cycle without a stored score),
\* and the regeneration changes no stored score (within one process: the scores
\* are kept in memory only)
C38_RegenerationKeepsScores ==
  [][(last'.regenerated /\ last'.op # "process_start") =>
       /\ routeScoreMap' = routeScoreMap
       /\ \A i \in DOMAIN routeQueue' :
            routeQueue'[i].priority =
              LearnedPriority(routeScoreMap, getRouteKey(routeQueue'[i].route))]_vars

\* a regeneration has queued a cycle with a learned score
C38_RegeneratedWithLearnedScore ==
  /\ last.regenerated
  /\ \E i \in DOMAIN routeQueue :
       /\ getRouteKey(routeQueue[i].route) \in DOMAIN routeScoreMap
       /\ routeQueue[i].priority # ScoreOne

(***************************************************************************)
(* The opportunity list                                                    *)
(***************************************************************************)
\* getBestOpportunity(): the first entry of the list, or null; the answer as a
\* sequence, empty for null
getBestOpportunity(s) ==
  IF Len(s.opportunities) = 0 THEN <<>> ELSE <<s.opportunities[1]>>

\* the sort keys of the opportunities an evaluation may find: every entry of the
\* list is found with the same tradeSize, so that its profit stands for its
\* profit percentage
FoundProfits == {800, 2000}

\* lines 2195-2203 of processNextRoute for an opportunity found: push, sort, slice
OpportunityFound(profit) ==
  /\ opportunities' = PushOpportunity(opportunities, profit)
  /\ last' = [op |-> "opportunity", regenerated |-> FALSE, profit |-> profit,
              before |-> opportunities]
  /\ UNCHANGED <<tokenMap, knownGoodTokens, blacklistedTokens, routeQueue, isScanning,
                 scanInterval, currentlyActiveRequests, routeScoreMap,
                 consecutiveErrors, backoffDelay, tokenScanPromise, jupiterApi,
                 fetchState, startWaiters, timers, intervals, inflight, cacheFile,
                 now, starts, paper, exchangeCalls, rateLimiter>>

\* a caller reads the best opportunity
GetBestOpportunity ==
  /\ last' = [op |-> "getBestOpportunity", regenerated |-> FALSE,
              result |-> getBestOpportunity(This)]
  /\ UNCHANGED <<scannerVars, paper, exchangeCalls, rateLimiter>>

\* the list under any sequence of opportunities found, long enough to fill it
NextOpportunities ==
  \/ \E profit \in FoundProfits : OpportunityFound(profit)
  \/ GetBestOpportunity

InitOpportunities == Init /\ jupiterApi = "setupJupiterAPI" /\ ~cacheFile.exists

SpecOpportunities == InitOpportunities /\ [][NextOpportunities]_vars

\* the list is sorted, highest first
SortedDescending(list) ==
  \A i, j \in DOMAIN list : i < j => list[i] >= list[j]

\* C39: in every reachable state the retained opportunity list has at most 50
\* entries and is sorted by profit percentage in descending order, so that
\* getBestOpportunity returns a retained opportunity with the maximum profit
\* percentage, or null when none was found
C39_OpportunitiesBoundedAndSorted ==
  /\ Len(opportunities) <= MaxOpportunities
  /\ SortedDescending(opportunities)
  /\ getBestOpportunity(This) = <<>> <=> opportunities = <<>>
  /\ opportunities # <<>> =>
       /\ getBestOpportunity(This)[1] \in Range(opportunities)
       /\ \A profit \in Range(opportunities) : getBestOpportunity(This)[1] >= profit
  /\ last.op = "getBestOpportunity" => last.result = getBestOpportunity(This)

\* an opportunity was found while the list was full, and the list dropped an entry
C39_FullListTruncated ==
  /\ last.op = "opportunity"
  /\ Len(last.before) = MaxOpportunities
  /\ Len(opportunities) = MaxOpportunities
  /\ opportunities # last.before
=============================================================================
